---------------------------- MODULE Spec2Model ----------------------------
(***************************************************************************)
(* The background analysis clock of forest-server (system-clock.js):       *)
(* class SystemClock, its recurring timers, warm-up and event-triggered    *)
(* one-off runs, the execution bodies and the run registry.                *)
(*                                                                         *)
(* Time is in milliseconds, as in the source.  The JavaScript event loop   *)
(* is modelled as interleaved atomic steps: every synchronous stretch of   *)
(* code between two suspension points (await) is one action.               *)
(***************************************************************************)
EXTENDS Integers, Sequences, FiniteSets, Bags, TLC

VARIABLES
    isTTY,                 \* process.stdin.isTTY: "true", "false" or "undefined"
    isRunning,             \* this.isRunning
    intervals,             \* this.intervals: Map type -> intervalId
    liveIntervals,         \* the runtime's table of live setInterval timers
    timeouts,              \* the runtime's pending setTimeout callbacks (a bag)
    nextId,                \* next timer handle returned by setInterval
    now,                   \* Date.now()
    lastAnalysis,          \* this.lastAnalysis: Map key -> ISO timestamp
    lastArchivingAttempt,  \* this.lastArchivingAttempt (0: never assigned)
    runs,                  \* execution bodies suspended at an await (a bag)
    emitted,               \* events published on the bus by the last step
    logged,                \* dataPersistence.logError calls made by the last step
    status,                \* what the last getStatus() call returned, as its caller holds it
    lastNote,              \* when the "no archiving needed" note was last logged (0: never)
    learningHistory,       \* the learning history handed to calculateSystemMetrics
    metrics,               \* what calculateSystemMetrics returned for it
    ops,                   \* number of calls into the clock so far (bounds the exploration)
    last                   \* the operation performed by the last step

vars == <<isTTY, isRunning, intervals, liveIntervals, timeouts, nextId, now,
          lastAnalysis, lastArchivingAttempt, runs, emitted, logged, status,
          lastNote, learningHistory, metrics, ops, last>>

-----------------------------------------------------------------------------
(* Bounds of the exploration *)

MaxOps == 2
MaxTime == 21602000
StartTime == 1000
MaxTopics == 2

-----------------------------------------------------------------------------
(* Constants of the program *)

JobKinds == {"strategic_analysis", "risk_detection", "opportunity_scanning",
             "identity_reflection", "data_archiving"}

HourMs == 60 * 60 * 1000

\* the age of the last check above which the "no archiving needed" note is logged
SixHoursMs == 6 * 60 * 60 * 1000
DayMs == 24 * 60 * 60 * 1000

StrategicWarmupMs == 30000
RiskWarmupMs == 60000
OpportunityWarmupMs == 90000
IdentityWarmupMs == 120000

BlockCompletedDelayMs == 5000
ProjectCreatedDelayMs == 10000
StrategyEvolvedDelayMs == 3000

ArchiveThrottleMs == 30000

TIMEOUT_MAX == 2147483647

defaultConfig ==
    [strategicAnalysisHours |-> 24,
     riskDetectionHours     |-> 12,
     opportunityScansHours  |-> 6,
     identityReflectionDays |-> 7,
     archivingDays          |-> 30,
     enableBackgroundTicks  |-> TRUE]

\* The configs callers pass to start(): nothing, the master switch off, and
\* cadence overrides that keep every period below TIMEOUT_MAX.
Configs ==
    { <<>>,
      [enableBackgroundTicks |-> FALSE],
      [strategicAnalysisHours |-> 1, archivingDays |-> 1,
       enableBackgroundTicks |-> TRUE] }

\* { ...defaultConfig, ...config }
MergeConfig(config) ==
    [f \in (DOMAIN defaultConfig) \cup (DOMAIN config) |->
        IF f \in DOMAIN config THEN config[f] ELSE defaultConfig[f]]

\* process.stdin.isTTY === false (an unavailable isTTY taken for a terminal)
IsMcpModeStrict == isTTY = "false"

\* !process.stdin.isTTY
IsMcpMode == isTTY # "true"

\* The delay the runtime gives a timer created with n * unitMs milliseconds:
\* a delay below 1 or above TIMEOUT_MAX (2^31 - 1) is replaced by 1.
TimerDelay(n, unitMs) ==
    IF n < 1 \/ n > TIMEOUT_MAX \div unitMs THEN 1 ELSE n * unitMs


-----------------------------------------------------------------------------
(* Maps, the timer table and the event bus *)

NoMap == <<>>

\* Map.prototype.set
MapSet(m, k, v) == [x \in (DOMAIN m) \cup {k} |-> IF x = k THEN v ELSE m[x]]

MapValues(m) == {m[k] : k \in DOMAIN m}

\* new Date().toISOString(): the instant as an ISO-8601 string (millisecond
\* precision, so distinct instants give distinct strings)
ToISOString(t) == [iso |-> t]

\* new Date(isoString) - 0: the instant an ISO string denotes
ParseISO(s) == s.iso

\* What a listener of the bus sees of the clock when an event reaches it
\* (EventBus.emit runs the listeners synchronously inside the emitting call).
Seen(running, ivals, live) ==
    [isRunning |-> running, activeIntervals |-> DOMAIN ivals, liveTimers |-> live]

\* this.eventBus.emit(topic, payload, 'SystemClock')
Emit(topic, payload, seen) ==
    [topic |-> topic, payload |-> payload, source |-> "SystemClock", seen |-> seen]

\* setInterval(() => this.perform<job>(), ms): a new live timer and its handle
NewInterval(id, job, ms) == [id |-> id, job |-> job, ms |-> ms, due |-> now + ms]

\* setTimeout(() => { this.perform<calls[1]>(); ... }, ms)
NewTimeout(calls, ms, origin) == [calls |-> calls, due |-> now + ms, origin |-> origin]

-----------------------------------------------------------------------------
(* The schedule* methods.  S is the part of the state they work on:        *)
(* [intervals, liveIntervals, timeouts, nextId].                           *)

\* the body shared by scheduleRiskDetection .. scheduleIdentityReflection and
\* by the interactive branch of the other two
ScheduleJob(S, job, ms, warmupMs) ==
    [intervals     |-> MapSet(S.intervals, job, S.nextId),
     liveIntervals |-> S.liveIntervals \cup {NewInterval(S.nextId, job, ms)},
     timeouts      |-> IF warmupMs = 0 THEN S.timeouts
                       ELSE S.timeouts (+) SetToBag({NewTimeout(<<job>>, warmupMs, "warmup")}),
     nextId        |-> S.nextId + 1]

scheduleStrategicAnalysis(S, hours) ==
    IF IsMcpMode THEN S
    ELSE ScheduleJob(S, "strategic_analysis", TimerDelay(hours, HourMs), StrategicWarmupMs)

scheduleRiskDetection(S, hours) ==
    ScheduleJob(S, "risk_detection", TimerDelay(hours, HourMs), RiskWarmupMs)

scheduleOpportunityScans(S, hours) ==
    ScheduleJob(S, "opportunity_scanning", TimerDelay(hours, HourMs), OpportunityWarmupMs)

scheduleIdentityReflection(S, days) ==
    ScheduleJob(S, "identity_reflection", TimerDelay(days, DayMs), IdentityWarmupMs)

\* scheduleArchiving returning before it creates its timer
scheduleArchivingNever(S, days) == S

\* scheduleArchiving with its commented-out warm-up setTimeout restored
scheduleArchivingWithWarmup(S, days) ==
    IF IsMcpMode THEN S
    ELSE ScheduleJob(S, "data_archiving", TimerDelay(days, DayMs), 150000)

\* the warm-up setTimeout of scheduleArchiving is commented out in the source
scheduleArchiving(S, days) ==
    IF IsMcpMode THEN S
    ELSE ScheduleJob(S, "data_archiving", TimerDelay(days, DayMs), 0)

\* lines 88-95 of start(): the five schedule calls, in order
ScheduleAll(S, c) ==
    LET s1 == scheduleStrategicAnalysis(S, c.strategicAnalysisHours)
        s2 == scheduleRiskDetection(s1, c.riskDetectionHours)
        s3 == scheduleOpportunityScans(s2, c.opportunityScansHours)
        s4 == scheduleIdentityReflection(s3, c.identityReflectionDays)
    IN  scheduleArchiving(s4, c.archivingDays)

SchedState ==
    [intervals |-> intervals, liveIntervals |-> liveIntervals,
     timeouts |-> timeouts, nextId |-> nextId]

\* start(config) publishing its event before it sets isRunning and schedules
StartEffectEmitsFirst(config) ==
    LET merged == MergeConfig(config)
        clockConfig == IF IsMcpMode
                       THEN [merged EXCEPT !.enableBackgroundTicks = FALSE]
                       ELSE merged
        S == IF clockConfig.enableBackgroundTicks
             THEN ScheduleAll(SchedState, clockConfig)
             ELSE SchedState
    IN  [isRunning |-> TRUE,
         sched     |-> S,
         emitted   |-> <<Emit("system:clock_started",
                              [config |-> clockConfig, startedAt |-> ToISOString(now)],
                              Seen(isRunning, intervals, liveIntervals))>>]

\* start(config) scheduling the five jobs whatever enableBackgroundTicks says
StartEffectIgnoresSwitch(config) ==
    LET merged == MergeConfig(config)
        clockConfig == IF IsMcpMode
                       THEN [merged EXCEPT !.enableBackgroundTicks = FALSE]
                       ELSE merged
        S == IF ~IsMcpMode
             THEN ScheduleAll(SchedState, clockConfig)
             ELSE SchedState
    IN  [isRunning |-> TRUE,
         sched     |-> S,
         emitted   |-> <<Emit("system:clock_started",
                              [config |-> clockConfig, startedAt |-> ToISOString(now)],
                              Seen(TRUE, S.intervals, S.liveIntervals))>>]

\* start(config) leaving the caller's enableBackgroundTicks in force in MCP mode
StartEffectKeepsSwitch(config) ==
    LET clockConfig == MergeConfig(config)
        S == IF clockConfig.enableBackgroundTicks
             THEN ScheduleAll(SchedState, clockConfig)
             ELSE SchedState
    IN  [isRunning |-> TRUE,
         sched     |-> S,
         emitted   |-> <<Emit("system:clock_started",
                              [config |-> clockConfig, startedAt |-> ToISOString(now)],
                              Seen(TRUE, S.intervals, S.liveIntervals))>>]

\* start(config) on a stopped clock: the state it leaves and the event it emits
StartEffect(config) ==
    LET merged == MergeConfig(config)
        clockConfig == IF IsMcpMode
                       THEN [merged EXCEPT !.enableBackgroundTicks = FALSE]
                       ELSE merged
        S == IF clockConfig.enableBackgroundTicks
             THEN ScheduleAll(SchedState, clockConfig)
             ELSE SchedState
    IN  [isRunning |-> TRUE,
         sched     |-> S,
         emitted   |-> <<Emit("system:clock_started",
                              [config |-> clockConfig, startedAt |-> ToISOString(now)],
                              Seen(TRUE, S.intervals, S.liveIntervals))>>]

\* stop() with the event published before the timers are cancelled
StopEffectEmitFirst ==
    [isRunning     |-> FALSE,
     intervals     |-> NoMap,
     liveIntervals |-> {t \in liveIntervals : t.id \notin MapValues(intervals)},
     timeouts      |-> timeouts,
     emitted       |-> <<Emit("system:clock_stopped",
                              [stoppedAt |-> ToISOString(now)],
                              Seen(isRunning, intervals, liveIntervals))>>]

\* stop() without intervals.clear()
StopEffectKeepsMap ==
    LET live == {t \in liveIntervals : t.id \notin MapValues(intervals)}
    IN  [isRunning     |-> FALSE,
         intervals     |-> intervals,
         liveIntervals |-> live,
         timeouts      |-> timeouts,
         emitted       |-> <<Emit("system:clock_stopped",
                                  [stoppedAt |-> ToISOString(now)],
                                  Seen(FALSE, intervals, live))>>]

\* stop() that also cancels the pending one-off callbacks
StopEffectCancelsOneOffs ==
    LET live == {t \in liveIntervals : t.id \notin MapValues(intervals)}
    IN  [isRunning     |-> FALSE,
         intervals     |-> NoMap,
         liveIntervals |-> live,
         timeouts      |-> EmptyBag,
         emitted       |-> <<Emit("system:clock_stopped",
                                  [stoppedAt |-> ToISOString(now)],
                                  Seen(FALSE, NoMap, live))>>]

\* stop() on a running clock: clearInterval of every recorded handle, then
\* intervals.clear(), then isRunning = false, then the event.  The pending
\* setTimeout callbacks are not touched.
StopEffect ==
    LET live == {t \in liveIntervals : t.id \notin MapValues(intervals)}
    IN  [isRunning     |-> FALSE,
         intervals     |-> NoMap,
         liveIntervals |-> live,
         timeouts      |-> timeouts,
         emitted       |-> <<Emit("system:clock_stopped",
                                  [stoppedAt |-> ToISOString(now)],
                                  Seen(FALSE, NoMap, live))>>]

\* the Map itself handed out in place of a new object
FromEntriesShared(map) == [shared |-> TRUE, entries |-> NoMap]

\* Object.fromEntries(map): a new object holding the entries of the Map
FromEntries(map) == [shared |-> FALSE, entries |-> map]

\* what the holder of an object returned by FromEntries reads in it
Entries(obj) == IF obj.shared THEN lastAnalysis ELSE obj.entries

\* getStatus(): a read of the state, without effect
getStatus ==
    [isRunning       |-> isRunning,
     activeIntervals |-> DOMAIN intervals,
     lastAnalyses    |-> FromEntries(lastAnalysis),
     uptime          |-> IF isRunning THEN "Active" ELSE "Stopped"]

\* no getStatus() call was made yet
NoStatus == [none |-> TRUE]

-----------------------------------------------------------------------------
(* Collaborators: what they may answer *)

Projects == {"p1"}

StrategicResults == { [insights |-> <<"a", "b">>] }
RiskResults == { [risks |-> <<"r1">>, overallRiskLevel |-> "high"],
                 [risks |-> <<"r1">>, overallRiskLevel |-> ""],
                 [summary |-> "nothing found"] }
OpportunityResults == { [opportunities |-> <<"o1">>, priorityLevel |-> "high"],
                        [summary |-> "nothing found"] }
IdentityResults == { [reflection |-> "i1"] }
ArchiveResults == { [archivedItems |-> 2] }

\* the result a provider may answer for a job
ProviderResults(job) ==
    CASE job = "strategic_analysis"   -> StrategicResults
      [] job = "risk_detection"       -> RiskResults
      [] job = "opportunity_scanning" -> OpportunityResults
      [] job = "identity_reflection"  -> IdentityResults
      [] job = "data_archiving"       -> ArchiveResults

-----------------------------------------------------------------------------
(* Execution bodies.  A run is an invocation of a perform* method that is   *)
(* suspended at an await; pc names the call it awaits.                     *)

\* learning_history.json absent or without completedTopics
NoHistory == [none |-> TRUE]

\* calculateSystemMetrics not called (yet)
NoMetrics == [none |-> TRUE]

\* loaded: the files among config.json, hta.json and learning_history.json
\* whose content the snapshot holds, and "day_*.json" once recentSchedules is
\* assigned (it is <<>> until then); error: whether systemState.error is set
NoSnapshot ==
    [projectId |-> "", timestamp |-> ToISOString(0), lastAnalyses |-> NoMap,
     loaded |-> {}, recentSchedules |-> <<>>, metrics |-> NoMetrics,
     error |-> FALSE]

\* providerCalls counts the operations of the reasoning engine, the identity
\* engine and the archiver that the body has invoked so far
NewRun(job, origin) ==
    [job |-> job, origin |-> origin, pc |-> "requireActiveProject",
     activeProject |-> "", systemState |-> NoSnapshot, error |-> "",
     providerCalls |-> 0]

\* the context string each body passes to dataPersistence.logError
LogContext(job) ==
    CASE job = "strategic_analysis"   -> "SystemClock.performStrategicAnalysis"
      [] job = "risk_detection"       -> "SystemClock.performRiskDetection"
      [] job = "opportunity_scanning" -> "SystemClock.performOpportunityScanning"
      [] job = "identity_reflection"  -> "SystemClock.performIdentityReflection"
      [] job = "data_archiving"       -> "SystemClock.performArchiving"

\* performArchiving without the throttle of its first lines
performArchivingStartUnthrottled(B, origin) ==
    [runs |-> B.runs (+) SetToBag({NewRun("data_archiving", origin)}),
     lastArchivingAttempt |-> now]

\* performArchiving recording its attempt only after its first await
performArchivingStartStampsLate(B, origin) ==
    IF B.lastArchivingAttempt # 0 /\ now - B.lastArchivingAttempt < ArchiveThrottleMs
    THEN B
    ELSE [B EXCEPT !.runs = @ (+) SetToBag({NewRun("data_archiving", origin)})]

\* The synchronous prefix of performArchiving (throttle, then the first await).
\* B is [runs, lastArchivingAttempt].
performArchivingStart(B, origin) ==
    IF B.lastArchivingAttempt # 0 /\ now - B.lastArchivingAttempt < ArchiveThrottleMs
    THEN B
    ELSE [runs |-> B.runs (+) SetToBag({NewRun("data_archiving", origin)}),
          lastArchivingAttempt |-> now]

\* The synchronous prefix of perform<job>: up to its first await.
BodyStart(B, job, origin) ==
    IF job = "data_archiving"
    THEN performArchivingStart(B, origin)
    ELSE [B EXCEPT !.runs = @ (+) SetToBag({NewRun(job, origin)})]

RECURSIVE BodiesStart(_, _, _)
\* a callback that invokes several bodies one after the other
BodiesStart(B, calls, origin) ==
    IF calls = <<>> THEN B
    ELSE BodiesStart(BodyStart(B, Head(calls), origin), Tail(calls), origin)

BodyState == [runs |-> runs, lastArchivingAttempt |-> lastArchivingAttempt]

\* gatherSystemState(projectId), up to its first await
GatherStart(projectId) ==
    [projectId |-> projectId, timestamp |-> ToISOString(now),
     lastAnalyses |-> lastAnalysis,
     loaded |-> {}, recentSchedules |-> <<>>, metrics |-> NoMetrics,
     error |-> FALSE]

-----------------------------------------------------------------------------
(* calculateSystemMetrics.  A completed topic is a record that holds any of *)
(* the fields difficulty, breakthrough, branch and completedAt; an entry of *)
(* completedTopics may also be null.                                        *)

Null == [null |-> TRUE]

\* the number sum / count
Quotient(sum, count) == [sum |-> sum, count |-> count]

ZeroMetrics ==
    [totalCompletedTasks |-> 0, averageDifficulty |-> Quotient(0, 1),
     breakthroughCount |-> 0, branchDiversity |-> 0, momentum |-> 0,
     lastActivityDays |-> 0]

\* metrics.error = error.message
WithError(m, message) ==
    [f \in DOMAIN m \cup {"error"} |-> IF f = "error" THEN message ELSE m[f]]

\* t.difficulty || 3
DifficultyOf(t) ==
    IF "difficulty" \in DOMAIN t /\ t["difficulty"] # 0 THEN t["difficulty"] ELSE 3

\* t.branch || 'general'
BranchOf(t) ==
    IF "branch" \in DOMAIN t /\ t["branch"] # "" THEN t["branch"] ELSE "general"

RECURSIVE Sum(_)
\* difficulties.reduce((a, b) => a + b, 0)
Sum(q) == IF q = <<>> THEN 0 ELSE Head(q) + Sum(Tail(q))

\* topics.filter(pred).length, given what pred answers for each topic
Count(kept) == Cardinality({i \in DOMAIN kept : kept[i]})

IsBreakthrough(t) == "breakthrough" \in DOMAIN t /\ t["breakthrough"]

\* new Date(t.completedAt) >= sevenDaysAgo (an absent completedAt gives an
\* invalid date, which compares false)
IsRecent(t, at) ==
    "completedAt" \in DOMAIN t /\ ParseISO(t["completedAt"]) >= at - 7 * DayMs

\* the body of the try block for a non-empty topics list without a null entry
ComputedMetrics(topics, at) ==
    LET lastTopic == topics[Len(topics)]
    IN  [totalCompletedTasks |-> Len(topics),
         averageDifficulty |->
             Quotient(Sum([i \in 1..Len(topics) |-> DifficultyOf(topics[i])]),
                      Len(topics)),
         breakthroughCount |-> Count([i \in 1..Len(topics) |-> IsBreakthrough(topics[i])]),
         branchDiversity |-> Cardinality({BranchOf(topics[i]) : i \in 1..Len(topics)}),
         momentum |-> Count([i \in 1..Len(topics) |-> IsRecent(topics[i], at)]),
         lastActivityDays |->
             IF "completedAt" \in DOMAIN lastTopic
             THEN (at - ParseISO(lastTopic["completedAt"])) \div DayMs
             ELSE 0]

\* difficulties defaulting to 0 in place of 3
calculateSystemMetricsNoDefault(history, at) ==
    IF "completedTopics" \notin DOMAIN history
    THEN ZeroMetrics
    ELSE LET topics == history.completedTopics
             plain == [i \in 1..Len(topics) |->
                         IF "difficulty" \in DOMAIN topics[i]
                         THEN topics[i]["difficulty"] ELSE 0]
         IN  IF Len(topics) = 0 THEN ZeroMetrics
             ELSE IF \E i \in 1..Len(topics) : topics[i] = Null
             THEN WithError([ZeroMetrics EXCEPT !.totalCompletedTasks = Len(topics)],
                            "TypeError")
             ELSE [ComputedMetrics(topics, at) EXCEPT
                      !.averageDifficulty = Quotient(Sum(plain), Len(topics))]

\* calculateSystemMetrics(systemState) for systemState.learningHistory = history,
\* called at time at.  Reading a field of a null entry throws a TypeError; that
\* happens in topics.map(t => t.difficulty || 3), after totalCompletedTasks was
\* assigned, and the catch block adds the error to the metrics as they are.
calculateSystemMetrics(history, at) ==
    IF "completedTopics" \notin DOMAIN history
    THEN ZeroMetrics
    ELSE LET topics == history.completedTopics
             counted == [ZeroMetrics EXCEPT !.totalCompletedTasks = Len(topics)]
         IN  IF Len(topics) = 0 THEN counted
             ELSE IF \E i \in 1..Len(topics) : topics[i] = Null
             THEN WithError(counted, "TypeError")
             ELSE ComputedMetrics(topics, at)

-----------------------------------------------------------------------------
(* gatherSystemState after its first line: the loads and what they leave in *)
(* the snapshot.  What dataPersistence answers is a record loads:           *)
(* failed names the file among the first three whose load throws ("" when   *)
(* none does), learningHistory is the content of learning_history.json, and *)
(* days[i] tells how the load of the schedule of i - 1 days ago ends.       *)

Files == <<"config.json", "hta.json", "learning_history.json">>

ScheduleDays == 7

\* date.toISOString().split('T')[0] for the day i days before at
DateStr(at, i) == [day |-> (at \div DayMs) - i]

IsLoaded(e) == e.outcome = "loaded"

\* the loop over the last 7 days: a schedule is pushed only if its load
\* returned one; a load that throws or returns nothing leaves the day out
RecentSchedules(days, at) ==
    LET tried == [i \in 1..ScheduleDays |-> [date |-> DateStr(at, i - 1), outcome |-> days[i]]]
        kept == SelectSeq(tried, IsLoaded)
    IN  [i \in 1..Len(kept) |-> [date |-> kept[i].date, schedule |-> "schedule"]]

\* the files loaded before the one that failed
LoadedBefore(failed) == {Files[i] : i \in {j \in 1..3 : \A k \in 1..j : Files[k] # failed}}

\* gatherSystemState without the try/catch around the load of a day's schedule
GatherEndDayFailureMarks(snapshot, loads, at) ==
    IF loads.failed # "" \/ \E i \in 1..ScheduleDays : loads.days[i] = "failed"
    THEN [snapshot EXCEPT !.loaded = LoadedBefore(loads.failed), !.error = TRUE]
    ELSE [snapshot EXCEPT !.loaded = LoadedBefore("") \cup {"day_*.json"},
                          !.recentSchedules = RecentSchedules(loads.days, at),
                          !.metrics = calculateSystemMetrics(loads.learningHistory, at)]

\* The snapshot gatherSystemState returns once its loads have answered.
GatherEnd(snapshot, loads, at) ==
    IF loads.failed # ""
    THEN [snapshot EXCEPT !.loaded = LoadedBefore(loads.failed), !.error = TRUE]
    ELSE [snapshot EXCEPT !.loaded = LoadedBefore("") \cup {"day_*.json"},
                          !.recentSchedules = RecentSchedules(loads.days, at),
                          !.metrics = calculateSystemMetrics(loads.learningHistory, at)]

\* what the loads of one gatherSystemState call answer: the load of hta.json
\* fails; or the three files load, and of the seven days some have a
\* schedule, some have none and some fail to load
GatherLoads ==
    { [failed |-> "hta.json", learningHistory |-> NoHistory,
       days |-> [i \in 1..ScheduleDays |-> "loaded"]],
      [failed |-> "",
       learningHistory |-> [completedTopics |-> <<[difficulty |-> 5], Null>>],
       days |-> <<"loaded", "failed", "empty", "loaded", "empty", "failed", "loaded">>] }

\* x || d for a string field f of a provider result
StringOr(r, f, d) == IF f \in DOMAIN r /\ r[f] # "" THEN r[f] ELSE d

\* x || [] for a list field f of a provider result
ListOr(r, f) == IF f \in DOMAIN r THEN r[f] ELSE <<>>

\* the topic of each job's result event
ResultTopic(job) ==
    CASE job = "strategic_analysis"   -> "system:strategic_insights"
      [] job = "risk_detection"       -> "system:risks_detected"
      [] job = "opportunity_scanning" -> "system:opportunities_detected"
      [] job = "identity_reflection"  -> "system:identity_insights"
      [] job = "data_archiving"       -> "system:archiving_completed"

\* the payload each body builds from its locals and the provider's result
ResultPayload(r, res) ==
    CASE r.job = "strategic_analysis" ->
            [projectId |-> r.activeProject, insights |-> res,
             systemState |-> r.systemState, analysisType |-> "background_strategic",
             analyzedAt |-> ToISOString(now)]
      [] r.job = "risk_detection" ->
            [projectId |-> r.activeProject, risks |-> ListOr(res, "risks"),
             riskLevel |-> StringOr(res, "overallRiskLevel", "low"),
             detectedAt |-> ToISOString(now)]
      [] r.job = "opportunity_scanning" ->
            [projectId |-> r.activeProject,
             opportunities |-> ListOr(res, "opportunities"),
             priorityLevel |-> StringOr(res, "priorityLevel", "medium"),
             detectedAt |-> ToISOString(now)]
      [] r.job = "identity_reflection" ->
            [projectId |-> r.activeProject, identityInsights |-> res,
             reflectedAt |-> ToISOString(now)]
      [] r.job = "data_archiving" ->
            [projectId |-> r.activeProject, results |-> res,
             archivedAt |-> ToISOString(now)]

\* the success tail replacing the registry by a new Map with its own entry
SuccessEffectResetsRegistry(r, res) ==
    [lastAnalysis |-> MapSet(NoMap, r.job, ToISOString(now)),
     emitted |-> <<Emit(ResultTopic(r.job), ResultPayload(r, res),
                        Seen(isRunning, intervals, liveIntervals))>>]

\* the success tail handing on a snapshot whose lastAnalyses is the Map itself
SuccessEffectSnapshotShared(r, res) ==
    LET reg == MapSet(lastAnalysis, r.job, ToISOString(now))
    IN  [lastAnalysis |-> reg,
         emitted |-> <<Emit(ResultTopic(r.job),
                            ResultPayload([r EXCEPT !.systemState.lastAnalyses = reg], res),
                            Seen(isRunning, intervals, liveIntervals))>>]

\* the success tail publishing the event without lastAnalysis.set
SuccessEffectSkipsRegistry(r, res) ==
    [lastAnalysis |-> lastAnalysis,
     emitted |-> <<Emit(ResultTopic(r.job), ResultPayload(r, res),
                        Seen(isRunning, intervals, liveIntervals))>>]

\* The success tail of a body, after its provider answered res:
\* lastAnalysis.set(job, now), then the result event.
SuccessEffect(r, res) ==
    LET reg == MapSet(lastAnalysis, r.job, ToISOString(now))
    IN  [lastAnalysis |-> reg,
         emitted |-> <<Emit(ResultTopic(r.job), ResultPayload(r, res),
                            Seen(isRunning, intervals, liveIntervals))>>]

\* The catch block of a body, up to its await: the logError call it makes.
CatchEffect(r, error) ==
    [run    |-> [r EXCEPT !.pc = "logError", !.error = error],
     logged |-> <<[context |-> LogContext(r.job), error |-> error]>>]

-----------------------------------------------------------------------------
(* What last records of a step: the operation, the job and the origin of the *)
(* body concerned, how the step ended and what the awaited call answered.    *)

NoResult == [none |-> TRUE]

Step(op, job, origin, outcome) ==
    [op |-> op, job |-> job, origin |-> origin, outcome |-> outcome,
     result |-> NoResult]

Call(op) == Step(op, "", "", "")

\* whether a callback that left the body state B started a body
Started(B) == IF B.runs # runs THEN "started" ELSE "not started"

\* The rejection of logError left a body whose promise nobody holds: the
\* callback of a timer calls the body without awaiting it, so the rejection
\* is unhandled, and the handler of unhandledRejection ends the process.
\* The caller of triggerImmediateAnalysis awaits the body and receives the
\* rejection itself.
Exited ==
    /\ last.op = "logErrorReturn"
    /\ last.outcome = "threw"
    /\ last.origin # "manual"

\* the process takes a step only while it has not exited
Alive == ~Exited

-----------------------------------------------------------------------------
(* The state after construction *)

Init ==
    /\ isTTY \in {"true", "false", "undefined"}
    /\ isRunning = FALSE
    /\ intervals = NoMap
    /\ liveIntervals = {}
    /\ timeouts = EmptyBag
    /\ nextId = 1
    /\ now = StartTime
    /\ lastAnalysis = NoMap
    /\ lastArchivingAttempt = 0
    /\ runs = EmptyBag
    /\ emitted = <<>>
    /\ logged = <<>>
    /\ status = NoStatus
    /\ lastNote = 0
    /\ learningHistory = NoHistory
    /\ metrics = NoMetrics
    /\ ops = 0
    /\ last = Call("init")

-----------------------------------------------------------------------------
(* Lifecycle *)

\* start(config) without the isRunning check
StartUnguarded(config) ==
    /\ Alive
    /\ ops < MaxOps
    /\ LET e == StartEffect(config)
       IN  /\ isRunning' = e.isRunning
           /\ intervals' = e.sched.intervals
           /\ liveIntervals' = e.sched.liveIntervals
           /\ timeouts' = e.sched.timeouts
           /\ nextId' = e.sched.nextId
           /\ emitted' = e.emitted
    /\ ops' = ops + 1
    /\ logged' = <<>>
    /\ last' = Step("start", "", "", "started")
    /\ UNCHANGED <<learningHistory, metrics, lastNote, status, isTTY, now, lastAnalysis, lastArchivingAttempt, runs>>

\* start(config)
Start(config) ==
    /\ Alive
    /\ IF isRunning
       THEN /\ last' = Step("start", "", "", "ignored")
            /\ emitted' = <<>>
            /\ logged' = <<>>
            /\ UNCHANGED <<learningHistory, metrics, lastNote, status, isTTY, isRunning, intervals, liveIntervals, timeouts, nextId,
                           now, lastAnalysis, lastArchivingAttempt, runs, ops>>
       ELSE /\ ops < MaxOps
            /\ LET e == StartEffect(config)
               IN  /\ isRunning' = e.isRunning
                   /\ intervals' = e.sched.intervals
                   /\ liveIntervals' = e.sched.liveIntervals
                   /\ timeouts' = e.sched.timeouts
                   /\ nextId' = e.sched.nextId
                   /\ emitted' = e.emitted
            /\ ops' = ops + 1
            /\ logged' = <<>>
            /\ last' = Step("start", "", "", "started")
            /\ UNCHANGED <<learningHistory, metrics, lastNote, status, isTTY, now, lastAnalysis, lastArchivingAttempt, runs>>

\* stop()
Stop ==
    /\ Alive
    /\ IF ~isRunning
       THEN /\ last' = Step("stop", "", "", "ignored")
            /\ emitted' = <<>>
            /\ logged' = <<>>
            /\ UNCHANGED <<learningHistory, metrics, lastNote, status, isTTY, isRunning, intervals, liveIntervals, timeouts, nextId,
                           now, lastAnalysis, lastArchivingAttempt, runs, ops>>
       ELSE /\ LET e == StopEffect
               IN  /\ isRunning' = e.isRunning
                   /\ intervals' = e.intervals
                   /\ liveIntervals' = e.liveIntervals
                   /\ timeouts' = e.timeouts
                   /\ emitted' = e.emitted
            /\ logged' = <<>>
            /\ last' = Step("stop", "", "", "stopped")
            /\ UNCHANGED <<learningHistory, metrics, lastNote, status, isTTY, nextId, now, lastAnalysis, lastArchivingAttempt,
                           runs, ops>>

\* a caller calls getStatus() and keeps what it returns
GetStatus ==
    /\ Alive
    /\ ops < MaxOps
    /\ ops' = ops + 1
    /\ status' = getStatus
    /\ last' = Call("getStatus")
    /\ emitted' = <<>>
    /\ logged' = <<>>
    /\ UNCHANGED <<learningHistory, metrics, lastNote, isTTY, isRunning, intervals, liveIntervals, timeouts, nextId,
                   now, lastAnalysis, lastArchivingAttempt, runs>>

\* the caller sets an entry of the lastAnalyses object that getStatus() returned
CallerWrites ==
    /\ Alive
    /\ status # NoStatus
    /\ ops < MaxOps
    /\ ops' = ops + 1
    /\ IF status.lastAnalyses.shared
       THEN /\ lastAnalysis' = MapSet(lastAnalysis, "strategic_analysis", ToISOString(0))
            /\ UNCHANGED status
       ELSE /\ status' = [status EXCEPT !.lastAnalyses.entries =
                              MapSet(@, "strategic_analysis", ToISOString(0))]
            /\ UNCHANGED lastAnalysis
    /\ last' = Call("callerWrites")
    /\ emitted' = <<>>
    /\ logged' = <<>>
    /\ UNCHANGED <<learningHistory, metrics, lastNote, isTTY, isRunning, intervals, liveIntervals, timeouts, nextId,
                   now, lastArchivingAttempt, runs>>

-----------------------------------------------------------------------------
(* Bus events and the manual trigger *)

Blocks ==
    { [breakthrough |-> TRUE],
      [breakthrough |-> FALSE, opportunityContext |-> [engagementLevel |-> 8]],
      [breakthrough |-> FALSE, opportunityContext |-> [engagementLevel |-> 7]],
      [breakthrough |-> FALSE] }

TasksAdded == {2, 3}

\* the test of onBlockCompleted with > 8 in place of >= 8
IsSignificantAbove(block) ==
    \/ block.breakthrough
    \/ /\ "opportunityContext" \in DOMAIN block
       /\ block.opportunityContext.engagementLevel > 8

\* block.breakthrough || block.opportunityContext?.engagementLevel >= 8
IsSignificant(block) ==
    \/ block.breakthrough
    \/ /\ "opportunityContext" \in DOMAIN block
       /\ block.opportunityContext.engagementLevel >= 8

\* the timeouts a handler adds for the callback it schedules
OneOff(calls, ms) == timeouts (+) SetToBag({NewTimeout(calls, ms, "event")})

\* onBlockCompleted({ block })
onBlockCompletedEffect(block) ==
    IF IsSignificant(block)
    THEN OneOff(<<"strategic_analysis">>, BlockCompletedDelayMs)
    ELSE timeouts

\* onProjectCreated whose callback calls performStrategicAnalysis only
onProjectCreatedEffectStrategicOnly ==
    OneOff(<<"strategic_analysis">>, ProjectCreatedDelayMs)

\* onProjectCreated({ projectId })
onProjectCreatedEffect ==
    OneOff(<<"strategic_analysis", "opportunity_scanning">>, ProjectCreatedDelayMs)

\* onStrategyEvolved with > 3 in place of >= 3
onStrategyEvolvedEffectAbove(tasksAdded) ==
    IF tasksAdded > 3
    THEN OneOff(<<"risk_detection">>, StrategyEvolvedDelayMs)
    ELSE timeouts

\* onStrategyEvolved({ projectId, tasksAdded })
onStrategyEvolvedEffect(tasksAdded) ==
    IF tasksAdded >= 3
    THEN OneOff(<<"risk_detection">>, StrategyEvolvedDelayMs)
    ELSE timeouts

\* bus handlers that react only while the clock is running
HandlerWhileRunning(topic, newTimeouts) ==
    /\ Alive
    /\ ops < MaxOps
    /\ ops' = ops + 1
    /\ timeouts' = IF isRunning THEN newTimeouts ELSE timeouts
    /\ last' = Step(topic, "", "event",
                     IF isRunning /\ newTimeouts # timeouts THEN "scheduled"
                     ELSE "ignored")
    /\ emitted' = <<>>
    /\ logged' = <<>>
    /\ UNCHANGED <<learningHistory, metrics, lastNote, status, isTTY, isRunning, intervals, liveIntervals, nextId, now,
                   lastAnalysis, lastArchivingAttempt, runs>>

\* the frame every bus handler shares: it only adds to the pending timeouts
Handler(topic, newTimeouts) ==
    /\ Alive
    /\ ops < MaxOps
    /\ ops' = ops + 1
    /\ timeouts' = newTimeouts
    /\ last' = Step(topic, "", "event",
                     IF newTimeouts # timeouts THEN "scheduled" ELSE "ignored")
    /\ emitted' = <<>>
    /\ logged' = <<>>
    /\ UNCHANGED <<learningHistory, metrics, lastNote, status, isTTY, isRunning, intervals, liveIntervals, nextId, now,
                   lastAnalysis, lastArchivingAttempt, runs>>

onBlockCompleted(block) == Handler("block:completed", onBlockCompletedEffect(block))

onProjectCreated == Handler("project:created", onProjectCreatedEffect)

onStrategyEvolved(n) == Handler("strategy:evolved", onStrategyEvolvedEffect(n))

Tags == {"strategic", "risk", "opportunity", "identity", "archive", "everything"}

\* the switch of triggerImmediateAnalysis with the break of its first case
\* missing
TagCallsFallThrough(tag) ==
    CASE tag = "strategic"   -> <<"strategic_analysis", "risk_detection">>
      [] tag = "risk"        -> <<"risk_detection">>
      [] tag = "opportunity" -> <<"opportunity_scanning">>
      [] tag = "identity"    -> <<"identity_reflection">>
      [] tag = "archive"     -> <<"data_archiving">>
      [] OTHER               -> <<>>

\* the switch of triggerImmediateAnalysis with a default case that runs the
\* strategic analysis
TagCallsDefaultStrategic(tag) ==
    CASE tag = "strategic"   -> <<"strategic_analysis">>
      [] tag = "risk"        -> <<"risk_detection">>
      [] tag = "opportunity" -> <<"opportunity_scanning">>
      [] tag = "identity"    -> <<"identity_reflection">>
      [] tag = "archive"     -> <<"data_archiving">>
      [] OTHER               -> <<"strategic_analysis">>

\* the switch of triggerImmediateAnalysis: the body a tag selects, if any
TagCalls(tag) ==
    CASE tag = "strategic"   -> <<"strategic_analysis">>
      [] tag = "risk"        -> <<"risk_detection">>
      [] tag = "opportunity" -> <<"opportunity_scanning">>
      [] tag = "identity"    -> <<"identity_reflection">>
      [] tag = "archive"     -> <<"data_archiving">>
      [] OTHER               -> <<>>

\* triggerImmediateAnalysis(analysisType), up to the first await of the body
triggerImmediateAnalysis(tag) ==
    /\ Alive
    /\ ops < MaxOps
    /\ ops' = ops + 1
    /\ LET B == BodiesStart(BodyState, TagCalls(tag), "manual")
       IN  /\ runs' = B.runs
           /\ lastArchivingAttempt' = B.lastArchivingAttempt
           /\ last' = Step("trigger", tag, "manual",
                            IF TagCalls(tag) = <<>>
                            THEN "unknown analysis type"
                            ELSE Started(B))
    /\ emitted' = <<>>
    /\ logged' = <<>>
    /\ UNCHANGED <<learningHistory, metrics, lastNote, status, isTTY, isRunning, intervals, liveIntervals, timeouts, nextId, now,
                   lastAnalysis>>

-----------------------------------------------------------------------------
(* The timers of the runtime *)

Dues == {t.due : t \in liveIntervals} \cup {t.due : t \in BagToSet(timeouts)}

Min(S) == CHOOSE x \in S : \A y \in S : x <= y

\* how long the process sits idle: the age up to which performArchiving
\* withholds its note, and one millisecond more
IdleSteps == {SixHoursMs, SixHoursMs + 1}

\* Time passes up to the next timer that is due; with no timer pending the
\* process sits idle for some time.
AdvanceTime ==
    \E target \in IF Dues = {} THEN {now + d : d \in IdleSteps} ELSE {Min(Dues)} :
        /\ Alive
        /\ target > now
        /\ target <= MaxTime
        /\ now' = target
        /\ last' = Call("advanceTime")
        /\ emitted' = <<>>
        /\ logged' = <<>>
        /\ UNCHANGED <<learningHistory, metrics, lastNote, status, isTTY, isRunning, intervals, liveIntervals, timeouts, nextId,
                       lastAnalysis, lastArchivingAttempt, runs, ops>>

\* a live setInterval timer fires: its callback starts the job's body
IntervalFire(t) ==
    /\ Alive
    /\ t \in liveIntervals
    /\ t.due <= now
    /\ ops < MaxOps
    /\ ops' = ops + 1
    /\ liveIntervals' = (liveIntervals \ {t}) \cup {[t EXCEPT !.due = now + t.ms]}
    /\ LET B == BodyStart(BodyState, t.job, "interval")
       IN  /\ runs' = B.runs
           /\ lastArchivingAttempt' = B.lastArchivingAttempt
           /\ last' = Step("intervalFire", t.job, "interval", Started(B))
    /\ emitted' = <<>>
    /\ logged' = <<>>
    /\ UNCHANGED <<learningHistory, metrics, lastNote, status, isTTY, isRunning, intervals, timeouts, nextId, now, lastAnalysis>>

\* a pending setTimeout callback fires: it starts the bodies it names
TimeoutFire(t) ==
    /\ Alive
    /\ BagIn(t, timeouts)
    /\ t.due <= now
    /\ ops < MaxOps
    /\ ops' = ops + 1
    /\ timeouts' = timeouts (-) SetToBag({t})
    /\ LET B == BodiesStart(BodyState, t.calls, t.origin)
       IN  /\ runs' = B.runs
           /\ lastArchivingAttempt' = B.lastArchivingAttempt
    /\ last' = Step("timeoutFire", Head(t.calls), t.origin, "started")
    /\ emitted' = <<>>
    /\ logged' = <<>>
    /\ UNCHANGED <<learningHistory, metrics, lastNote, status, isTTY, isRunning, intervals, liveIntervals, nextId, now,
                   lastAnalysis>>

-----------------------------------------------------------------------------
(* The steps of a suspended execution body: an awaited call answers *)

Replace(r, r2) == (runs (-) SetToBag({r})) (+) SetToBag({r2})

Remove(r) == runs (-) SetToBag({r})

BodyStep(name, r, outcome) == Step(name, r.job, r.origin, outcome)

\* await this.projectManagement.requireActiveProject() answers: a project id,
\* or it throws (outcome "NoActiveProject")
RequireActiveProjectReturn(r, outcome) ==
    /\ Alive
    /\ BagIn(r, runs)
    /\ r.pc = "requireActiveProject"
    /\ IF outcome \in Projects
       THEN /\ runs' = Replace(r,
                  IF r.job = "data_archiving"
                  THEN [r EXCEPT !.pc = "assessArchiveNeeds", !.activeProject = outcome,
                                 !.providerCalls = @ + 1]
                  ELSE [r EXCEPT !.pc = "gatherSystemState", !.activeProject = outcome,
                                 !.systemState = GatherStart(outcome)])
            /\ logged' = <<>>
       ELSE LET c == CatchEffect(r, outcome)
            IN  /\ runs' = Replace(r, c.run)
                /\ logged' = c.logged
    /\ last' = BodyStep("requireActiveProjectReturn", r, outcome)
    /\ emitted' = <<>>
    /\ UNCHANGED <<learningHistory, metrics, lastNote, status, isTTY, isRunning, intervals, liveIntervals, timeouts, nextId, now,
                   lastAnalysis, lastArchivingAttempt, ops>>

\* the loads of gatherSystemState answer; a failed load of config, task tree
\* or learning history leaves the error marker; then the provider is called
GatherSystemStateReturn(r, loads) ==
    /\ Alive
    /\ BagIn(r, runs)
    /\ r.pc = "gatherSystemState"
    /\ runs' = Replace(r, [r EXCEPT !.pc = "provider",
                                    !.systemState = GatherEnd(@, loads, now),
                                    !.providerCalls = @ + 1])
    /\ last' = [BodyStep("gatherSystemStateReturn", r, "gathered") EXCEPT !.result = loads]
    /\ emitted' = <<>>
    /\ logged' = <<>>
    /\ UNCHANGED <<learningHistory, metrics, lastNote, status, isTTY, isRunning, intervals, liveIntervals, timeouts, nextId, now,
                   lastAnalysis, lastArchivingAttempt, ops>>

\* the provider of a strategic/risk/opportunity/identity body answers res
ProviderReturn(r, res) ==
    /\ Alive
    /\ BagIn(r, runs)
    /\ r.pc = "provider"
    /\ res \in ProviderResults(r.job)
    /\ LET e == SuccessEffect(r, res)
       IN  /\ lastAnalysis' = e.lastAnalysis
           /\ emitted' = e.emitted
    /\ runs' = Remove(r)
    /\ logged' = <<>>
    /\ last' = [BodyStep("providerReturn", r, "returned") EXCEPT !.result = res]
    /\ UNCHANGED <<learningHistory, metrics, lastNote, status, isTTY, isRunning, intervals, liveIntervals, timeouts, nextId, now,
                   lastArchivingAttempt, ops>>

\* the provider (or, in archiving, an archiver call) throws
ProviderThrow(r) ==
    /\ Alive
    /\ BagIn(r, runs)
    /\ r.pc \in {"provider", "assessArchiveNeeds", "performArchiving"}
    /\ LET c == CatchEffect(r, "ProviderFailure")
       IN  /\ runs' = Replace(r, c.run)
           /\ logged' = c.logged
    /\ last' = BodyStep("providerThrow", r, "ProviderFailure")
    /\ emitted' = <<>>
    /\ UNCHANGED <<learningHistory, metrics, lastNote, status, isTTY, isRunning, intervals, liveIntervals, timeouts, nextId, now,
                   lastAnalysis, lastArchivingAttempt, ops>>

\* the else branch of performArchiving logging its note at every check
ShouldLogAlways == TRUE

\* the else branch of performArchiving: whether the note is logged
ShouldLog ==
    \/ "data_archiving_check" \notin DOMAIN lastAnalysis
    \/ now - ParseISO(lastAnalysis["data_archiving_check"]) > SixHoursMs

\* the else branch writing its timestamp under the key of the archiving itself
ArchiveNotNeededEffectSetsArchiving ==
    [lastNote |-> IF ShouldLog THEN now ELSE lastNote,
     lastAnalysis |-> MapSet(lastAnalysis, "data_archiving", ToISOString(now))]

\* The else branch of performArchiving: the note, if it is due, then
\* lastAnalysis.set('data_archiving_check', now.toISOString()).
ArchiveNotNeededEffect ==
    [lastNote |-> IF ShouldLog THEN now ELSE lastNote,
     lastAnalysis |-> MapSet(lastAnalysis, "data_archiving_check", ToISOString(now))]

\* await this.dataArchiver.assessArchiveNeeds(activeProject) answers
AssessArchiveNeedsReturn(r, archiveNeeded) ==
    /\ Alive
    /\ BagIn(r, runs)
    /\ r.pc = "assessArchiveNeeds"
    /\ IF archiveNeeded
       THEN /\ runs' = Replace(r, [r EXCEPT !.pc = "performArchiving",
                                            !.providerCalls = @ + 1])
            /\ UNCHANGED <<lastAnalysis, lastNote>>
            /\ last' = BodyStep("assessArchiveNeedsReturn", r, "needed")
       ELSE /\ runs' = Remove(r)
            /\ lastNote' = ArchiveNotNeededEffect.lastNote
            /\ lastAnalysis' = ArchiveNotNeededEffect.lastAnalysis
            /\ last' = BodyStep("assessArchiveNeedsReturn", r,
                                 IF ShouldLog THEN "returned, note logged"
                                 ELSE "returned")
    /\ emitted' = <<>>
    /\ logged' = <<>>
    /\ UNCHANGED <<learningHistory, metrics, status, isTTY, isRunning, intervals,
                   liveIntervals, timeouts, nextId, now, lastArchivingAttempt, ops>>

\* await this.dataArchiver.performArchiving({ projectId }) answers res
PerformArchivingReturn(r, res) ==
    /\ Alive
    /\ BagIn(r, runs)
    /\ r.pc = "performArchiving"
    /\ res \in ArchiveResults
    /\ LET e == SuccessEffect(r, res)
       IN  /\ lastAnalysis' = e.lastAnalysis
           /\ emitted' = e.emitted
    /\ runs' = Remove(r)
    /\ logged' = <<>>
    /\ last' = [BodyStep("performArchivingReturn", r, "returned") EXCEPT !.result = res]
    /\ UNCHANGED <<learningHistory, metrics, lastNote, status, isTTY, isRunning, intervals, liveIntervals, timeouts, nextId, now,
                   lastArchivingAttempt, ops>>

\* a catch block that rethrows once the error is logged
CatchEndRethrows(logErrorFailed) == "threw"

\* How a body ends once the logError call it awaits in its catch block is
\* settled: it returns, or the rejection of logError leaves the body.
CatchEnd(logErrorFailed) == IF logErrorFailed THEN "threw" ELSE "returned"

\* await this.dataPersistence.logError(context, error) is settled
LogErrorReturn(r, logErrorFailed) ==
    /\ Alive
    /\ BagIn(r, runs)
    /\ r.pc = "logError"
    /\ runs' = Remove(r)
    /\ last' = [BodyStep("logErrorReturn", r, CatchEnd(logErrorFailed))
                   EXCEPT !.result = [logErrorFailed |-> logErrorFailed]]
    /\ emitted' = <<>>
    /\ logged' = <<>>
    /\ UNCHANGED <<learningHistory, metrics, lastNote, status, isTTY, isRunning, intervals, liveIntervals, timeouts, nextId, now,
                   lastAnalysis, lastArchivingAttempt, ops>>

-----------------------------------------------------------------------------
(* calculateSystemMetrics on its own: the learning histories it is given    *)

\* an optional field: no value, or one of vals
Optional(vals) == {<<>>} \cup {<<v>> : v \in vals}

\* the topic holding the fields that were given a value
Topic(difficulty, breakthrough, branch, completedAt) ==
    LET given == [difficulty |-> difficulty, breakthrough |-> breakthrough,
                  branch |-> branch, completedAt |-> completedAt]
    IN  [f \in {x \in DOMAIN given : given[x] # <<>>} |-> given[f][1]]

Topics ==
    { Topic(d, b, br, c) :
        d \in Optional({0, 5}), b \in Optional({TRUE}), br \in Optional({"a", "b"}),
        c \in Optional({ToISOString(StartTime - DayMs), ToISOString(StartTime - 8 * DayMs)}) }

TopicLists == UNION {[1..n -> Topics \cup {Null}] : n \in 0..MaxTopics}

Histories == {NoHistory} \cup {[completedTopics |-> q] : q \in TopicLists}

InitMetrics ==
    /\ isTTY = "false"
    /\ isRunning = FALSE
    /\ intervals = NoMap
    /\ liveIntervals = {}
    /\ timeouts = EmptyBag
    /\ nextId = 1
    /\ now = StartTime
    /\ lastAnalysis = NoMap
    /\ lastArchivingAttempt = 0
    /\ runs = EmptyBag
    /\ emitted = <<>>
    /\ logged = <<>>
    /\ status = NoStatus
    /\ lastNote = 0
    /\ learningHistory \in Histories
    /\ metrics = NoMetrics
    /\ ops = 0
    /\ last = Call("init")

\* systemState.metrics = this.calculateSystemMetrics(systemState)
CalculateSystemMetrics ==
    /\ metrics = NoMetrics
    /\ metrics' = calculateSystemMetrics(learningHistory, now)
    /\ last' = Call("calculateSystemMetrics")
    /\ UNCHANGED <<learningHistory, lastNote, status, isTTY, isRunning, intervals,
                   liveIntervals, timeouts, nextId, now, lastAnalysis,
                   lastArchivingAttempt, runs, emitted, logged, ops>>

NextMetrics == CalculateSystemMetrics

SpecMetrics == InitMetrics /\ [][NextMetrics]_vars

-----------------------------------------------------------------------------
(* The specification *)

Next ==
    \/ \E config \in Configs : Start(config)
    \/ Stop
    \/ GetStatus
    \/ CallerWrites
    \/ \E block \in Blocks : onBlockCompleted(block)
    \/ onProjectCreated
    \/ \E n \in TasksAdded : onStrategyEvolved(n)
    \/ \E tag \in Tags : triggerImmediateAnalysis(tag)
    \/ AdvanceTime
    \/ \E t \in liveIntervals : IntervalFire(t)
    \/ \E t \in BagToSet(timeouts) : TimeoutFire(t)
    \/ \E r \in BagToSet(runs) :
          \/ \E outcome \in Projects \cup {"NoActiveProject"} :
                RequireActiveProjectReturn(r, outcome)
          \/ \E loads \in GatherLoads : GatherSystemStateReturn(r, loads)
          \/ \E res \in ProviderResults(r.job) : ProviderReturn(r, res)
          \/ ProviderThrow(r)
          \/ \E needed \in BOOLEAN : AssessArchiveNeedsReturn(r, needed)
          \/ \E res \in ArchiveResults : PerformArchivingReturn(r, res)
          \/ \E failed \in BOOLEAN : LogErrorReturn(r, failed)

Spec == Init /\ [][Next]_vars

-----------------------------------------------------------------------------
(* Properties *)

AnalysisJobs == JobKinds \ {"data_archiving"}

StoppedBy(outcome) == last.op = "stop" /\ last.outcome = outcome

StartedBy(outcome) == last.op = "start" /\ last.outcome = outcome

Warmups(bag) == {t \in BagToSet(bag) : t.origin = "warmup"}

OneOffs(bag) == {t \in BagToSet(bag) : t.origin = "event"}

\* C1: whatever start() and stop() calls were made, at most one recurring
\* timer is live per JobKind, and every live recurring timer is the one the
\* intervals map records for its JobKind.
C1_OneTimerPerJobKind ==
    /\ \A t1, t2 \in liveIntervals : t1.job = t2.job => t1 = t2
    /\ \A t \in liveIntervals :
          t.job \in DOMAIN intervals /\ intervals[t.job] = t.id

\* C1 witness: start() was called on a running clock that holds five timers.
C1_Witness ==
    /\ StartedBy("ignored")
    /\ isRunning
    /\ Cardinality(liveIntervals) = 5

\* C2: right after any stop(), getStatus() reports running = false and an
\* empty active-timer set.
C2_StopThenStatus ==
    last.op = "stop" =>
        /\ getStatus.isRunning = FALSE
        /\ getStatus.activeIntervals = {}

\* C2 witness: stop() has just stopped a clock that had created timers.
C2_Witness ==
    /\ StoppedBy("stopped")
    /\ nextId > 1
    /\ getStatus.isRunning = FALSE
    /\ getStatus.activeIntervals = {}

\* C3 (as stated): no recurring timer and no warm-up callback created by
\* start() starts an execution body while the clock is stopped.
C3_NoScheduledWorkAfterStop ==
    (last.op \in {"intervalFire", "timeoutFire"}
        /\ last.origin \in {"interval", "warmup"}) => isRunning

\* the copies of each one-off callback scheduled by a bus handler
SameOneOffs(b1, b2) ==
    \A t \in OneOffs(b1) \cup OneOffs(b2) : CopiesIn(t, b1) = CopiesIn(t, b2)

Completed == last.op \in {"providerReturn", "performArchivingReturn"}

C5_StopEvent ==
    [][ last'.op = "stop" =>
          IF isRunning
          THEN /\ Len(emitted') = 1
               /\ emitted'[1].topic = "system:clock_stopped"
               /\ emitted'[1].seen.isRunning = FALSE
               /\ emitted'[1].seen.activeIntervals = {}
               /\ emitted'[1].seen.liveTimers = {}
               /\ ~isRunning' /\ liveIntervals' = {} /\ DOMAIN intervals' = {}
          ELSE /\ emitted' = <<>>
               /\ UNCHANGED <<isTTY, isRunning, intervals, liveIntervals, timeouts,
                              nextId, now, lastAnalysis, lastArchivingAttempt, runs>>
      ]_vars

\* C5 witness: stop() has cancelled the timers of a running clock and
\* published its event.
C5_Witness ==
    /\ StoppedBy("stopped")
    /\ nextId > 1
    /\ Len(emitted) = 1
    /\ emitted[1].topic = "system:clock_stopped"

\* an effective start() in interactive mode with periodic scheduling enabled
InteractiveStart(config) ==
    /\ isTTY = "true"
    /\ ~isRunning
    /\ "enableBackgroundTicks" \in DOMAIN config => config.enableBackgroundTicks
    /\ Start(config)

\* C6: in interactive mode with periodic scheduling enabled, start() leaves
\* the active-timer set equal to the five JobKinds, and the set does not
\* change while the clock stays running.
C6_FiveTimersUntilStop ==
    [][ /\ \A config \in Configs : InteractiveStart(config) =>
              /\ DOMAIN intervals' = JobKinds
              /\ {t.job : t \in liveIntervals'} = JobKinds
        /\ (isRunning /\ isRunning') => DOMAIN intervals' = DOMAIN intervals
      ]_vars

\* C6 witness: a timer has fired on the running interactive clock and the
\* active-timer set still holds the five JobKinds.
C6_Witness ==
    /\ isTTY = "true"
    /\ isRunning
    /\ last.op = "intervalFire"
    /\ DOMAIN intervals = JobKinds

\* C7: in embedded mode no recurring timer and no warm-up run exists for
\* strategic_analysis or data_archiving, whatever config start() was given.
C7_EmbeddedNoStrategicNoArchiving ==
    isTTY # "true" =>
        \A job \in {"strategic_analysis", "data_archiving"} :
            /\ job \notin DOMAIN intervals
            /\ \A t \in liveIntervals : t.job # job
            /\ \A t \in Warmups(timeouts) : \A i \in 1..Len(t.calls) : t.calls[i] # job
            /\ \A r \in BagToSet(runs) :
                  r.job = job => r.origin \notin {"warmup", "interval"}

\* C7 witness: start() has started the clock in embedded mode.
C7_Witness ==
    /\ isTTY # "true"
    /\ StartedBy("started")
    /\ isRunning

\* the warm-up callbacks a step added
NewWarmups == Warmups(timeouts' (-) timeouts)

\* the expiry of the warm-up callback a step added for a job
WarmupDue(job) == (CHOOSE t \in NewWarmups : t.calls = <<job>>).due

\* the callback a timeoutFire step took from the pending ones
Fired == CHOOSE t \in BagToSet(timeouts) : CopiesIn(t, timeouts') < CopiesIn(t, timeouts)

\* C8: in interactive mode with periodic scheduling enabled an effective
\* start() adds exactly one warm-up callback for each of strategic_analysis,
\* risk_detection, opportunity_scanning and identity_reflection, expiring in
\* that order, and none for data_archiving; warm-up callbacks fire in the
\* order of their expiry.
C8_StaggeredWarmups ==
    [][ /\ \A config \in Configs : InteractiveStart(config) =>
              /\ \A t \in BagToSet(timeouts' (-) timeouts) :
                    /\ t.origin = "warmup"
                    /\ CopiesIn(t, timeouts' (-) timeouts) = 1
              /\ Cardinality(NewWarmups) = 4
              /\ {t.calls : t \in NewWarmups} = {<<job>> : job \in AnalysisJobs}
              /\ now < WarmupDue("strategic_analysis")
              /\ WarmupDue("strategic_analysis") < WarmupDue("risk_detection")
              /\ WarmupDue("risk_detection") < WarmupDue("opportunity_scanning")
              /\ WarmupDue("opportunity_scanning") < WarmupDue("identity_reflection")
        /\ (last'.op = "timeoutFire" /\ last'.origin = "warmup") =>
              \A t \in Warmups(timeouts') : Fired.due <= t.due
      ]_vars

\* C8 witness: the strategic warm-up run of a running clock has started and
\* the other three warm-up callbacks are still pending.
C8_Witness ==
    /\ isRunning
    /\ last.op = "timeoutFire"
    /\ last.origin = "warmup"
    /\ last.job = "strategic_analysis"
    /\ {t.calls : t \in Warmups(timeouts)} =
          {<<job>> : job \in AnalysisJobs \ {"strategic_analysis"}}

\* the run a step took out of the suspended ones
Ended == CHOOSE r \in BagToSet(runs) : CopiesIn(r, runs') < CopiesIn(r, runs)

\* the step set exactly the registry entry of job
SetsOnly(job) ==
    /\ DOMAIN lastAnalysis' = DOMAIN lastAnalysis \cup {job}
    /\ lastAnalysis'[job] = ToISOString(now)
    /\ \A k \in DOMAIN lastAnalysis \ {job} : lastAnalysis'[k] = lastAnalysis[k]

\* the topic the claims name for each analysis job
TopicOf(job) ==
    CASE job = "strategic_analysis"   -> "system:strategic_insights"
      [] job = "risk_detection"       -> "system:risks_detected"
      [] job = "opportunity_scanning" -> "system:opportunities_detected"
      [] job = "identity_reflection"  -> "system:identity_insights"

\* the step published one event on the job's topic for the resolved project
PublishesOne(job) ==
    /\ Len(emitted') = 1
    /\ emitted'[1].topic = TopicOf(job)
    /\ Ended.job = job
    /\ Ended.activeProject \in Projects
    /\ emitted'[1].payload.projectId = Ended.activeProject

\* the payload field that holds a field of the provider's result
PayloadField(f) == IF f = "overallRiskLevel" THEN "riskLevel" ELSE f

\* the payload holds the provider's result as the provider gave it
CarriesUnchanged(payload, job, res) ==
    CASE job = "strategic_analysis"  -> payload.insights = res
      [] job = "identity_reflection" -> payload.identityInsights = res
      [] OTHER ->
            \A f \in DOMAIN res :
                /\ PayloadField(f) \in DOMAIN payload
                /\ payload[PayloadField(f)] = res[f]

\* the field f of a provider's result, or d when it is absent or empty
FieldOr(res, f, d) == IF f \in DOMAIN res /\ res[f] # "" THEN res[f] ELSE d

\* the payload holds what each body takes from the provider's result
CarriesSelected(payload, job, res) ==
    CASE job = "strategic_analysis"  -> payload.insights = res
      [] job = "identity_reflection" -> payload.identityInsights = res
      [] job = "risk_detection" ->
            /\ payload.risks = IF "risks" \in DOMAIN res THEN res.risks ELSE <<>>
            /\ payload.riskLevel = FieldOr(res, "overallRiskLevel", "low")
            /\ DOMAIN payload = {"projectId", "risks", "riskLevel", "detectedAt"}
      [] job = "opportunity_scanning" ->
            /\ payload.opportunities =
                  IF "opportunities" \in DOMAIN res THEN res.opportunities ELSE <<>>
            /\ payload.priorityLevel = FieldOr(res, "priorityLevel", "medium")
            /\ DOMAIN payload =
                  {"projectId", "opportunities", "priorityLevel", "detectedAt"}

\* C9 (as stated): a successful run of a strategic/risk/opportunity/identity
\* body sets exactly its own registry entry and publishes exactly one event
\* on its topic, carrying the resolved project id and the provider's result
\* unchanged.
C9_ProviderResultUnchanged ==
    [][ last'.op = "providerReturn" =>
          /\ SetsOnly(last'.job)
          /\ PublishesOne(last'.job)
          /\ CarriesUnchanged(emitted'[1].payload, last'.job, last'.result)
      ]_vars

\* C9 (amended): a successful run of a strategic/risk/opportunity/identity
\* body sets exactly its own registry entry and publishes exactly one event
\* on its topic, carrying the resolved project id and: the provider's result
\* unchanged for strategic and identity; for risk only the result's risks
\* (an empty list when absent) and its overallRiskLevel ("low" when absent or
\* empty); for opportunity only its opportunities (an empty list when absent)
\* and its priorityLevel ("medium" when absent or empty).
C9_ResultEvent ==
    [][ last'.op = "providerReturn" =>
          /\ SetsOnly(last'.job)
          /\ PublishesOne(last'.job)
          /\ CarriesSelected(emitted'[1].payload, last'.job, last'.result)
      ]_vars

\* C9 witness: a risk provider answered without risks and without a level,
\* and the run set its registry entry and published its event with defaults.
C9_Witness ==
    /\ last.op = "providerReturn"
    /\ last.job = "risk_detection"
    /\ last.result = [summary |-> "nothing found"]
    /\ "risk_detection" \in DOMAIN lastAnalysis
    /\ Len(emitted) = 1
    /\ emitted[1].payload.risks = <<>>
    /\ emitted[1].payload.riskLevel = "low"

\* the step in which a body caught NoActiveProject or ProviderFailure
Failed ==
    \/ last.op = "providerThrow"
    \/ last.op = "requireActiveProjectReturn" /\ last.outcome = "NoActiveProject"

\* the context each body names when it logs its failure
ContextOf(job) ==
    CASE job = "strategic_analysis"   -> "SystemClock.performStrategicAnalysis"
      [] job = "risk_detection"       -> "SystemClock.performRiskDetection"
      [] job = "opportunity_scanning" -> "SystemClock.performOpportunityScanning"
      [] job = "identity_reflection"  -> "SystemClock.performIdentityReflection"
      [] job = "data_archiving"       -> "SystemClock.performArchiving"

\* what a step of a failing body leaves alone
FailureFrame ==
    /\ emitted' = <<>>
    /\ UNCHANGED <<isRunning, intervals, liveIntervals, timeouts, lastAnalysis>>

\* C10: when a body catches NoActiveProject or ProviderFailure, the registry
\* is unchanged, no event is published and the error is logged once with the
\* job's context; when the logging call then succeeds the body returns
\* normally, again changing no registry entry and publishing nothing; no other
\* step logs an error.
C10_FailureSwallowed ==
    [][ /\ Failed' =>
              /\ FailureFrame
              /\ logged' = <<[context |-> ContextOf(last'.job),
                              error |-> last'.outcome]>>
              /\ \E r \in BagToSet(runs') :
                    /\ r.pc = "logError" /\ r.job = last'.job
                    /\ CopiesIn(r, runs') = CopiesIn(r, runs) + 1
        /\ logged' # <<>> => Failed'
        /\ (last'.op = "logErrorReturn" /\ ~last'.result.logErrorFailed) =>
              /\ FailureFrame
              /\ last'.outcome = "returned"
              /\ Ended.pc = "logError"
              /\ runs' = runs (-) SetToBag({Ended})
      ]_vars

\* C10 witness: a one-off run scheduled by a bus handler failed, its error
\* was logged and the body returned normally.
C10_Witness ==
    /\ last.op = "logErrorReturn"
    /\ last.origin = "event"
    /\ last.outcome = "returned"
    /\ last.result = [logErrorFailed |-> FALSE]

\* C11 (as stated): no failure leaves an execution body that a timer or a bus
\* callback started, also when the logError call of its catch block fails,
\* and no failure of a job ends the process through an unhandled rejection.
C11_NoFailureLeavesBody ==
    (last.op = "logErrorReturn" /\ last.origin \in {"interval", "warmup", "event"}) =>
        /\ last.outcome = "returned"
        /\ ~Exited

\* a step in which a call awaited by an execution body answered
BodyAnswered ==
    last.op \in {"requireActiveProjectReturn", "gatherSystemStateReturn",
                 "providerReturn", "providerThrow", "assessArchiveNeedsReturn",
                 "performArchivingReturn", "logErrorReturn"}

\* the recurring timers with the period of each
Cadences(live) == {[id |-> t.id, job |-> t.job, ms |-> t.ms] : t \in live}

\* C12 (as stated): no outcome of an execution body adds, cancels or
\* reschedules a recurring timer, and after it every live recurring timer
\* keeps firing.
C12_BodiesLeaveTimers ==
    [][ (BodyAnswered' /\ liveIntervals # {}) =>
          /\ intervals' = intervals
          /\ Cadences(liveIntervals') = Cadences(liveIntervals)
          /\ \A t \in liveIntervals : \E t2 \in liveIntervals' : t2.id = t.id /\ t2.due = t.due
          /\ ~Exited'
      ]_vars

\* a body is suspended in a provider call that has not answered
ProviderPending == \E r \in BagToSet(runs) : r.pc = "provider"

\* C13 (as stated): while the provider call of one job has not answered, the
\* process goes on starting and completing the runs of the other jobs.
C13_PendingProviderBlocksNobody == ProviderPending => Alive

\* a step that invoked performArchiving: its timer fired or it was triggered
ArchivingInvoked ==
    \/ last.op = "intervalFire" /\ last.job = "data_archiving"
    \/ last.op = "trigger" /\ last.job = "archive"

\* less than 30 seconds have passed since the attempt recorded last
WithinThrottle == lastArchivingAttempt # 0 /\ now - lastArchivingAttempt < 30000

\* C14: an archiving invocation less than 30 seconds after the attempt
\* recorded last returns at once: the throttle timestamp and the registry are
\* unchanged, no body is left waiting for the project or the archiver, and
\* nothing is published or logged.
C14_ThrottledArchivingNoEffect ==
    [][ (ArchivingInvoked' /\ WithinThrottle) =>
          /\ lastArchivingAttempt' = lastArchivingAttempt
          /\ lastAnalysis' = lastAnalysis
          /\ runs' = runs
          /\ emitted' = <<>>
          /\ logged' = <<>>
          /\ UNCHANGED <<isRunning, intervals, timeouts>>
      ]_vars

\* C14 witness: a manual archiving trigger arrived within 30 seconds of the
\* recorded attempt and started no body.
C14_Witness ==
    /\ last.op = "trigger"
    /\ last.job = "archive"
    /\ last.outcome = "not started"
    /\ WithinThrottle

\* the archiving bodies suspended in a collaborator call
ArchivingInFlight(bag) == {r \in BagToSet(bag) : r.job = "data_archiving"}

\* a step in which an archiving invocation passed the throttle
ArchivingPassed == ArchivingInvoked' /\ runs' # runs

\* C15 (as stated): two archiving invocations that pass the throttle are at
\* least 30 seconds apart, and no invocation passes while an earlier one is
\* still suspended in a collaborator call.
C15_NoSecondWhileSuspended ==
    [][ ArchivingPassed =>
          /\ ~WithinThrottle
          /\ ArchivingInFlight(runs) = {}
      ]_vars

\* C15 (amended): two archiving invocations that pass the throttle are at
\* least 30 seconds apart: an invocation passes only when no attempt is
\* recorded or the recorded one is 30 seconds old or older, it records the
\* present time as the attempt, and the recorded attempt is never ahead of
\* the present time; whether an earlier invocation is still suspended plays
\* no part.
C15_PassingAttemptsApart ==
    [][ /\ ArchivingPassed =>
              /\ lastArchivingAttempt = 0 \/ now - lastArchivingAttempt >= 30000
              /\ lastArchivingAttempt' = now
        /\ lastArchivingAttempt' <= now'
        /\ lastArchivingAttempt' # lastArchivingAttempt => ArchivingPassed
      ]_vars

\* C15 witness: a second archiving invocation passed the throttle while the
\* first was still suspended in a collaborator call.
C15_Witness ==
    /\ last.op = "trigger"
    /\ last.job = "archive"
    /\ last.outcome = "started"
    /\ \/ Cardinality(ArchivingInFlight(runs)) >= 2
       \/ \E r \in ArchivingInFlight(runs) : CopiesIn(r, runs) >= 2

\* the engagement level a block:completed payload reports, if any
Engagement(block) ==
    IF "opportunityContext" \in DOMAIN block
    THEN block.opportunityContext.engagementLevel
    ELSE 0

\* the state of the clock, its timers and its bodies
ClockState ==
    <<isTTY, isRunning, intervals, liveIntervals, timeouts, nextId, now,
      lastAnalysis, lastArchivingAttempt, runs>>

\* a bus handler added one callback for calls, due after ms, and nothing else
SchedulesOnly(calls, ms) ==
    /\ timeouts' = timeouts (+)
          SetToBag({[calls |-> calls, due |-> now + ms, origin |-> "event"]})
    /\ emitted' = <<>>
    /\ logged' = <<>>
    /\ UNCHANGED <<isTTY, isRunning, intervals, liveIntervals, nextId, now,
                   lastAnalysis, lastArchivingAttempt, runs>>

\* a bus handler did nothing
SchedulesNothing ==
    /\ emitted' = <<>>
    /\ logged' = <<>>
    /\ UNCHANGED ClockState

\* the callback a bus handler scheduled for calls fired in this step
OneOffFired(calls) ==
    /\ last'.op = "timeoutFire"
    /\ last'.origin = "event"
    /\ Fired.calls = calls

\* the callback that fired was due, was used up and started exactly the bodies
\* in jobs, each once, leaving every other timer as it was
StartsOnce(jobs) ==
    /\ Fired.due <= now
    /\ timeouts' = timeouts (-) SetToBag({Fired})
    /\ runs' = runs (+) SetToBag({NewRun(job, "event") : job \in jobs})
    /\ UNCHANGED <<isRunning, intervals, liveIntervals, lastAnalysis>>

\* C16: a block:completed event with a breakthrough or an engagement level of
\* 8 or more schedules exactly one callback, due 5 seconds later, and starts
\* no body itself; when the callback fires it starts exactly one strategic
\* analysis; every other timer is left as it was.  A block:completed event
\* with neither schedules nothing and changes no state.
C16_BlockCompletedOneOff ==
    [][ /\ \A block \in Blocks : onBlockCompleted(block) =>
              IF block.breakthrough \/ Engagement(block) >= 8
              THEN SchedulesOnly(<<"strategic_analysis">>, 5000)
              ELSE SchedulesNothing
        /\ OneOffFired(<<"strategic_analysis">>) => StartsOnce({"strategic_analysis"})
      ]_vars

\* C16 witness: five seconds after a block:completed event the callback fired
\* and started one strategic analysis.
C16_Witness ==
    /\ last.op = "timeoutFire"
    /\ last.origin = "event"
    /\ now = StartTime + 5000
    /\ runs = SetToBag({NewRun("strategic_analysis", "event")})

\* C17: a project:created event schedules exactly one callback, due 10
\* seconds later, and starts no body itself; when the callback fires it
\* starts exactly one strategic analysis and exactly one opportunity scan.
C17_ProjectCreatedOneOff ==
    [][ /\ onProjectCreated =>
              SchedulesOnly(<<"strategic_analysis", "opportunity_scanning">>, 10000)
        /\ OneOffFired(<<"strategic_analysis", "opportunity_scanning">>) =>
              StartsOnce({"strategic_analysis", "opportunity_scanning"})
      ]_vars

\* C17 witness: ten seconds after a project:created event the callback fired
\* and started one strategic analysis and one opportunity scan.
C17_Witness ==
    /\ last.op = "timeoutFire"
    /\ last.origin = "event"
    /\ now = StartTime + 10000
    /\ runs = SetToBag({NewRun("strategic_analysis", "event"),
                        NewRun("opportunity_scanning", "event")})

\* C18: a strategy:evolved event reporting 3 or more added tasks schedules
\* exactly one callback, due 3 seconds later, and starts no body itself; when
\* the callback fires it starts exactly one risk detection.  One reporting
\* fewer than 3 schedules nothing and changes no state.
C18_StrategyEvolvedOneOff ==
    [][ /\ \A n \in TasksAdded : onStrategyEvolved(n) =>
              IF n >= 3
              THEN SchedulesOnly(<<"risk_detection">>, 3000)
              ELSE SchedulesNothing
        /\ OneOffFired(<<"risk_detection">>) => StartsOnce({"risk_detection"})
      ]_vars

\* C18 witness: three seconds after a strategy:evolved event the callback
\* fired and started one risk detection.
C18_Witness ==
    /\ last.op = "timeoutFire"
    /\ last.origin = "event"
    /\ now = StartTime + 3000
    /\ runs = SetToBag({NewRun("risk_detection", "event")})

\* the job each tag of the manual trigger names
TagJob(tag) ==
    CASE tag = "strategic"   -> "strategic_analysis"
      [] tag = "risk"        -> "risk_detection"
      [] tag = "opportunity" -> "opportunity_scanning"
      [] tag = "identity"    -> "identity_reflection"
      [] tag = "archive"     -> "data_archiving"

\* the bodies a callback started, one for each call it makes
StartedFor(calls, origin) ==
    runs' = runs (+) SetToBag({NewRun(calls[i], origin) : i \in 1..Len(calls)})

\* C19: whatever the mode and whether or not the clock is running, was never
\* started or has been stopped, a project:created event schedules its
\* callback, a callback scheduled by a bus handler starts the bodies it
\* names, and a manual trigger starts the body its tag names.
C19_TriggersIgnoreModeAndFlag ==
    [][ /\ onProjectCreated => timeouts' # timeouts
        /\ (last'.op = "timeoutFire" /\ last'.origin = "event") =>
              StartedFor(Fired.calls, "event")
        /\ \A tag \in {"strategic", "risk", "opportunity", "identity"} :
              (last'.op = "trigger" /\ last'.job = tag) =>
                  StartedFor(<<TagJob(tag)>>, "manual")
        /\ (last'.op = "trigger" /\ last'.job = "archive" /\ ~WithinThrottle) =>
              StartedFor(<<"data_archiving">>, "manual")
      ]_vars

\* C19 witness: in embedded mode, on a clock that was never started, a run
\* scheduled by a bus handler completed and published its result.
C19_Witness ==
    /\ isTTY # "true"
    /\ ~isRunning
    /\ nextId = 1
    /\ last.op = "providerReturn"
    /\ last.origin = "event"
    /\ Len(emitted) = 1

\* a body that a manual trigger started ended in this step
ManualEnded ==
    /\ last'.origin = "manual"
    /\ \/ last'.op \in {"providerReturn", "performArchivingReturn", "logErrorReturn"}
       \/ last'.op = "assessArchiveNeedsReturn" /\ last'.outcome # "needed"

\* a body that a manual trigger started ended with success in this step
ManualSucceeded ==
    /\ last'.origin = "manual"
    /\ last'.op \in {"providerReturn", "performArchivingReturn"}

\* the registry entry of job is set and is not older than it was
NotOlder(job) ==
    /\ job \in DOMAIN lastAnalysis'
    /\ job \in DOMAIN lastAnalysis =>
          ParseISO(lastAnalysis'[job]) >= ParseISO(lastAnalysis[job])

\* a manual trigger with the tag of one of the five jobs
Triggered(tag) == last'.op = "trigger" /\ last'.job = tag

\* C20 (as stated): a manual trigger with the tag of any of the five jobs
\* runs the job's body once, the body has made exactly one provider
\* invocation when it ends, and on success the job's registry entry is not
\* older than before.
C20_OneProviderCallPerTrigger ==
    [][ /\ \A tag \in {"strategic", "risk", "opportunity", "identity", "archive"} :
              Triggered(tag) => StartedFor(<<TagJob(tag)>>, "manual")
        /\ ManualEnded => Ended.providerCalls = 1
        /\ ManualSucceeded => NotOlder(last'.job)
      ]_vars

\* C20 (amended): a manual trigger with the tag of any of the five jobs runs
\* the job's body once; a strategic, risk, opportunity or identity body has
\* made exactly one provider invocation when the project resolved and none
\* when it did not; an archiving body has made no archiver call when it was
\* throttled or the project did not resolve, one when archiving was not
\* warranted, two when it archived, and one or two when an archiver call
\* failed; on success the job's registry entry is not older than before.
C20_ManualTriggerRunsBodyOnce ==
    [][ /\ \A tag \in {"strategic", "risk", "opportunity", "identity"} :
              Triggered(tag) => StartedFor(<<TagJob(tag)>>, "manual")
        /\ Triggered("archive") =>
              IF WithinThrottle
              THEN runs' = runs
              ELSE StartedFor(<<"data_archiving">>, "manual")
        /\ ManualEnded =>
              Ended.providerCalls =
                  CASE last'.op = "providerReturn" -> 1
                    [] last'.op = "assessArchiveNeedsReturn" -> 1
                    [] last'.op = "performArchivingReturn" -> 2
                    [] last'.op = "logErrorReturn" /\ Ended.error = "NoActiveProject" -> 0
                    [] last'.op = "logErrorReturn" /\ Ended.error = "ProviderFailure"
                          /\ Ended.job # "data_archiving" -> 1
                    [] OTHER -> IF Ended.providerCalls = 2 THEN 2 ELSE 1
        /\ ManualSucceeded => NotOlder(last'.job)
      ]_vars

\* C20 witness: a manual archiving trigger ended after the archiver assessed
\* the need and archived, and the registry entry of data_archiving is set.
C20_Witness ==
    /\ last.op = "performArchivingReturn"
    /\ last.origin = "manual"
    /\ "data_archiving" \in DOMAIN lastAnalysis
    /\ Len(emitted) = 1

\* C21: a manual trigger with a tag that names no job reports the unknown
\* type and does nothing else: no body starts, nothing is published or
\* logged through the logging collaborator, and the registry, the throttle
\* timestamp, the running flag and every timer are as they were.
C21_UnknownTagNoJob ==
    [][ Triggered("everything") =>
          /\ last'.outcome = "unknown analysis type"
          /\ emitted' = <<>>
          /\ logged' = <<>>
          /\ UNCHANGED ClockState
      ]_vars

\* C21 witness: a manual trigger with an unknown tag has returned while a
\* body started earlier is still suspended.
C21_Witness ==
    /\ last.op = "trigger"
    /\ last.job = "everything"
    /\ last.outcome = "unknown analysis type"
    /\ runs # EmptyBag

\* C22: getStatus() changes no state and publishes nothing; it returns the
\* running flag, the jobs that hold a live recurring timer and the entries of
\* the registry; what the holder reads in the returned registry copy changes
\* with no later step of the clock, and a write of the holder to that copy
\* leaves the registry as it was.
C22_StatusIsSnapshot ==
    [][ /\ last'.op = "getStatus" =>
              /\ UNCHANGED ClockState
              /\ emitted' = <<>>
              /\ logged' = <<>>
              /\ status'.isRunning = isRunning
              /\ status'.activeIntervals = {t.job : t \in liveIntervals}
              /\ Entries(status.lastAnalyses)' = lastAnalysis
        /\ (status # NoStatus /\ last'.op \notin {"getStatus", "callerWrites"}) =>
              /\ status' = status
              /\ Entries(status.lastAnalyses)' = Entries(status.lastAnalyses)
        /\ last'.op = "callerWrites" => lastAnalysis' = lastAnalysis
      ]_vars

\* C22 witness: after getStatus() returned, a body completed and set a
\* registry entry that the returned copy does not hold.
C22_Witness ==
    /\ status # NoStatus
    /\ last.op = "providerReturn"
    /\ last.job \in DOMAIN lastAnalysis
    /\ last.job \notin DOMAIN Entries(status.lastAnalyses)

\* the caller's value of a config field when present, the default otherwise
FieldOrDefault(config, f, d) == IF f \in DOMAIN config THEN config[f] ELSE d

\* the config the claims expect start(config) to use
ExpectedConfig(config) ==
    [strategicAnalysisHours |-> FieldOrDefault(config, "strategicAnalysisHours", 24),
     riskDetectionHours     |-> FieldOrDefault(config, "riskDetectionHours", 12),
     opportunityScansHours  |-> FieldOrDefault(config, "opportunityScansHours", 6),
     identityReflectionDays |-> FieldOrDefault(config, "identityReflectionDays", 7),
     archivingDays          |-> FieldOrDefault(config, "archivingDays", 30),
     enableBackgroundTicks  |-> FieldOrDefault(config, "enableBackgroundTicks", TRUE)]

\* the cadence of a job in a config and the milliseconds of its unit
CadenceOf(job, c) ==
    CASE job = "strategic_analysis"   -> c.strategicAnalysisHours
      [] job = "risk_detection"       -> c.riskDetectionHours
      [] job = "opportunity_scanning" -> c.opportunityScansHours
      [] job = "identity_reflection"  -> c.identityReflectionDays
      [] job = "data_archiving"       -> c.archivingDays

UnitOf(job) ==
    IF job \in {"identity_reflection", "data_archiving"}
    THEN 24 * 60 * 60 * 1000
    ELSE 60 * 60 * 1000

\* C23 (as stated, for interactive mode): start(config) uses the caller's
\* value of each field when present and the default otherwise, publishes that
\* config with system:clock_started, and every recurring timer it creates has
\* the period cadence x unit of its job.
C23_CadenceTimesUnit ==
    [][ \A config \in Configs : (isTTY = "true" /\ ~isRunning /\ Start(config)) =>
          /\ emitted'[1].topic = "system:clock_started"
          /\ emitted'[1].payload.config = ExpectedConfig(config)
          /\ \A t \in liveIntervals' \ liveIntervals :
                /\ t.ms % UnitOf(t.job) = 0
                /\ t.ms \div UnitOf(t.job) = CadenceOf(t.job, ExpectedConfig(config))
      ]_vars

\* the registry keys whose entry a step set, changed or removed
Written ==
    {k \in DOMAIN lastAnalysis \cup DOMAIN lastAnalysis' :
        \/ k \notin DOMAIN lastAnalysis
        \/ k \notin DOMAIN lastAnalysis'
        \/ lastAnalysis'[k] # lastAnalysis[k]}

\* C24 (as stated): two runs of the same job are never in flight together.
C24_OneRunPerJob ==
    \A r1, r2 \in BagToSet(runs) :
        r1.job = r2.job => (r1 = r2 /\ CopiesIn(r1, runs) = 1)

\* C24 (amended): at most one body writes a registry key at a time: a step
\* writes at most one key, and only as the step in which one body, the one
\* that ends in it, takes the answer of its provider or of the archiver;
\* other runs of the same job may be in flight meanwhile.
C24_OneWriterPerStep ==
    [][ Written # {} =>
          /\ Cardinality(Written) = 1
          /\ \/ last'.op \in {"providerReturn", "performArchivingReturn"}
                   /\ Written = {last'.job}
             \/ last'.op = "assessArchiveNeedsReturn"
                   /\ Written = {"data_archiving_check"}
          /\ Ended.job = last'.job
          /\ runs' = runs (-) SetToBag({Ended})
      ]_vars

\* C24 witness: a body completed and set its registry entry while another
\* run of the same job was in flight.
C24_Witness ==
    /\ last.op = "providerReturn"
    /\ last.job \in DOMAIN lastAnalysis
    /\ \E r \in BagToSet(runs) : r.job = last.job

\* the run a step put in flight or moved on to its next await
Begun == CHOOSE r \in BagToSet(runs') : CopiesIn(r, runs') > CopiesIn(r, runs)

ArchivingAnswers ==
    {"requireActiveProjectReturn", "assessArchiveNeedsReturn", "performArchivingReturn",
     "providerThrow", "logErrorReturn"}

\* C26: an archiving invocation that passes the throttle records the present
\* time as the attempt in the very step that leaves it waiting for the
\* project, no project resolved and the archiver not yet consulted; whatever
\* its awaited calls answer afterwards (a failure, nothing to do, an archive
\* made), the recorded attempt stays as it is; and an invocation less than 30
\* seconds after the recorded attempt starts no body.
C26_AttemptRecordedFirst ==
    [][ /\ ArchivingPassed =>
              /\ lastArchivingAttempt' = now
              /\ Begun.job = "data_archiving"
              /\ Begun.pc = "requireActiveProject"
              /\ Begun.activeProject = ""
              /\ Begun.providerCalls = 0
        /\ (last'.job = "data_archiving" /\ last'.op \in ArchivingAnswers) =>
              /\ lastArchivingAttempt # 0
              /\ lastArchivingAttempt <= now
              /\ lastArchivingAttempt' = lastArchivingAttempt
        /\ (ArchivingInvoked' /\ WithinThrottle) => ArchivingInFlight(runs') = ArchivingInFlight(runs)
      ]_vars

\* C26 witness: an archiving body failed before it set anything in the
\* registry, and the invocation that followed within 30 seconds was throttled.
C26_Witness ==
    /\ ArchivingInvoked
    /\ last.outcome = "not started"
    /\ WithinThrottle
    /\ runs = EmptyBag
    /\ lastAnalysis = NoMap

\* C27: in an archiving run that passed the throttle, the answer that
\* archiving is warranted only moves the body on to the archiver's
\* performArchiving; when that answers, the body sets the data_archiving
\* entry of the registry and nothing else in it (the check key is untouched)
\* and publishes exactly one system:archiving_completed event with the
\* project, the archiver's results and the time.  The answer that archiving
\* is not warranted ends the body having set only the data_archiving_check
\* entry: the archiver's performArchiving was not called and nothing is
\* published.
C27_ArchivedOrSkipped ==
    [][ /\ (last'.op = "assessArchiveNeedsReturn" /\ last'.outcome = "needed") =>
              /\ Begun = [Ended EXCEPT !.pc = "performArchiving", !.providerCalls = 2]
              /\ lastAnalysis' = lastAnalysis
              /\ emitted' = <<>>
        /\ last'.op = "performArchivingReturn" =>
              /\ Ended.pc = "performArchiving"
              /\ Ended.providerCalls = 2
              /\ runs' = runs (-) SetToBag({Ended})
              /\ lastAnalysis' = MapSet(lastAnalysis, "data_archiving", ToISOString(now))
              /\ emitted' = << Emit("system:archiving_completed",
                                    [projectId |-> Ended.activeProject,
                                     results |-> last'.result,
                                     archivedAt |-> ToISOString(now)],
                                    Seen(isRunning, intervals, liveIntervals)) >>
        /\ (last'.op = "assessArchiveNeedsReturn" /\ last'.outcome # "needed") =>
              /\ Ended.pc = "assessArchiveNeeds"
              /\ Ended.providerCalls = 1
              /\ runs' = runs (-) SetToBag({Ended})
              /\ lastAnalysis' = MapSet(lastAnalysis, "data_archiving_check",
                                        ToISOString(now))
              /\ emitted' = <<>>
        /\ (last'.job = "data_archiving" /\ (lastAnalysis' # lastAnalysis \/ emitted' # <<>>)) =>
              last'.op \in {"assessArchiveNeedsReturn", "performArchivingReturn"}
      ]_vars

\* C27 witness: after a check that found nothing to archive, a later run
\* archived and published its event; the registry holds both keys.
C27_Witness ==
    /\ last.op = "performArchivingReturn"
    /\ emitted # <<>>
    /\ "data_archiving" \in DOMAIN lastAnalysis
    /\ "data_archiving_check" \in DOMAIN lastAnalysis
    /\ ParseISO(lastAnalysis["data_archiving_check"]) < ParseISO(lastAnalysis["data_archiving"])

\* C28: a check that finds nothing to archive logs its note only if no note
\* was logged before or the last one is more than 6 hours old, so two logged
\* notes are never 6 hours or less apart; the time of the last note changes
\* in no other step.
C28_NotesSixHoursApart ==
    [][ /\ last'.outcome = "returned, note logged" =>
              /\ last'.op = "assessArchiveNeedsReturn"
              /\ lastNote = 0 \/ now - lastNote > SixHoursMs
              /\ lastNote' = now
        /\ last'.outcome # "returned, note logged" => lastNote' = lastNote
      ]_vars

\* C28 witness: exactly 6 hours after a note was logged, a check that found
\* nothing to archive ended without logging one.
C28_Witness ==
    /\ last.op = "assessArchiveNeedsReturn"
    /\ last.outcome = "returned"
    /\ lastNote # 0
    /\ now - lastNote = SixHoursMs

\* C29 (as stated): every archiving invocation whose awaited calls answer
\* ends, whatever they answer, in a state from which the process takes later
\* invocations.
C29_ArchivingReturnsToIdle ==
    (last.job = "data_archiving" /\ last.op \in ArchivingAnswers) => Alive

\* the steps in which an execution body sets a registry entry
RegistryWriters == {"providerReturn", "performArchivingReturn", "assessArchiveNeedsReturn"}

\* C30: the registry and the archiving throttle timestamp change only in the
\* steps of execution bodies: the registry when a provider or the archiver
\* answers a body, the timestamp when an archiving invocation passes the
\* throttle.  start(), stop(), getStatus() (and what its caller does with the
\* result), the bus handlers and the passing of time leave both unchanged,
\* and no step removes an entry of the registry or puts an earlier time in it.
C30_OnlyBodiesWrite ==
    [][ /\ lastAnalysis' # lastAnalysis => last'.op \in RegistryWriters
        /\ lastArchivingAttempt' # lastArchivingAttempt => ArchivingPassed
        /\ last'.op \in {"start", "stop", "getStatus", "callerWrites", "advanceTime"}
              \cup {"block:completed", "project:created", "strategy:evolved"} =>
              /\ lastAnalysis' = lastAnalysis
              /\ lastArchivingAttempt' = lastArchivingAttempt
        /\ \A k \in DOMAIN lastAnalysis :
              /\ k \in DOMAIN lastAnalysis'
              /\ ParseISO(lastAnalysis'[k]) >= ParseISO(lastAnalysis[k])
      ]_vars

\* C30 witness: stop() took effect on a clock whose registry holds an entry
\* and whose throttle timestamp is set, and left both in place.
C30_Witness ==
    /\ StoppedBy("stopped")
    /\ lastAnalysis # NoMap
    /\ lastArchivingAttempt # 0

\* the handles of the recurring timers that are live in the runtime
LiveIds(live) == {t.id : t \in live}

\* C31: the set of active timers (this.intervals, and the timers live in the
\* runtime) is non-empty only while isRunning is true, and isRunning and the
\* set of active timers change only in the steps of start() and stop(): a
\* body, a bus handler, a manual trigger, getStatus() and a timer firing
\* leave them as they are.
C31_TimersOnlyWhileRunning ==
    [][ /\ (intervals' # NoMap \/ liveIntervals' # {}) => isRunning'
        /\ (\/ isRunning' # isRunning
            \/ intervals' # intervals
            \/ LiveIds(liveIntervals') # LiveIds(liveIntervals)
            \/ Cadences(liveIntervals') # Cadences(liveIntervals)) =>
              last'.op \in {"start", "stop"}
      ]_vars

\* C31 witness: on a running clock with its timers active, a call awaited by
\* a body that a timer started has answered.
C31_Witness ==
    /\ BodyAnswered
    /\ last.origin = "interval"
    /\ isRunning
    /\ DOMAIN intervals = JobKinds
    /\ LiveIds(liveIntervals) = MapValues(intervals)

\* a config that sets the master switch of periodic scheduling to false
SwitchOff(config) ==
    /\ "enableBackgroundTicks" \in DOMAIN config
    /\ ~config.enableBackgroundTicks

\* C32: in interactive mode an effective start() whose config sets
\* enableBackgroundTicks to false sets isRunning, creates no recurring timer
\* and no warm-up callback, starts no body, and publishes one
\* system:clock_started event whose config has the switch off; on the clock
\* so started a further start() changes nothing and publishes nothing.
C32_MasterSwitchOff ==
    [][ \A config \in Configs :
          /\ (isTTY = "true" /\ ~isRunning /\ SwitchOff(config) /\ Start(config)) =>
                /\ isRunning'
                /\ intervals' = NoMap
                /\ liveIntervals' = {}
                /\ timeouts' = timeouts
                /\ runs' = runs
                /\ Len(emitted') = 1
                /\ emitted'[1].topic = "system:clock_started"
                /\ emitted'[1].payload.config = MergeConfig(config)
                /\ ~emitted'[1].payload.config.enableBackgroundTicks
          /\ (isTTY = "true" /\ isRunning /\ intervals = NoMap /\ Start(config)) =>
                /\ UNCHANGED ClockState
                /\ emitted' = <<>>
      ]_vars

\* C32 witness: start() was called again on an interactive clock that is
\* running without any timer or warm-up callback, and was ignored.
C32_Witness ==
    /\ isTTY = "true"
    /\ StartedBy("ignored")
    /\ isRunning
    /\ intervals = NoMap
    /\ liveIntervals = {}
    /\ Warmups(timeouts) = {}

\* no recurring timer, no warm-up callback and no body started by either
NothingPeriodic ==
    /\ intervals = NoMap
    /\ liveIntervals = {}
    /\ Warmups(timeouts) = {}
    /\ \A r \in BagToSet(runs) : r.origin \notin {"warmup", "interval"}

\* C33: in embedded mode (isTTY false) there is never a recurring timer or a
\* warm-up callback for any of the five JobKinds, whatever config start()
\* was given; right after an effective start() getStatus() reports running
\* with an empty active-timer set, and the config of the system:clock_started
\* event has enableBackgroundTicks false.
C33_EmbeddedNothingPeriodic ==
    isTTY = "false" =>
        /\ NothingPeriodic
        /\ StartedBy("started") =>
              /\ getStatus.isRunning
              /\ getStatus.activeIntervals = {}
              /\ emitted[1].topic = "system:clock_started"
              /\ ~emitted[1].payload.config.enableBackgroundTicks

\* C33 witness: in embedded mode start() took effect with the config that
\* passes the master switch as true (and strategicAnalysisHours 1).
C33_Witness ==
    /\ isTTY = "false"
    /\ StartedBy("started")
    /\ isRunning
    /\ emitted[1].payload.config.strategicAnalysisHours = 1

\* C34: when process.stdin.isTTY yields no value, start() takes effect as in
\* embedded mode: the clock is running, with no recurring timer, no warm-up
\* callback and the event's config showing periodic scheduling off.
C34_NoTerminalCheckAsEmbedded ==
    isTTY = "undefined" =>
        /\ NothingPeriodic
        /\ StartedBy("started") =>
              /\ isRunning
              /\ Len(emitted) = 1
              /\ emitted[1].topic = "system:clock_started"
              /\ emitted[1].payload.config.enableBackgroundTicks = FALSE

\* C34 witness: start() took effect where the terminal check yields no value.
C34_Witness ==
    /\ isTTY = "undefined"
    /\ StartedBy("started")
    /\ isRunning
    /\ getStatus.activeIntervals = {}

\* the entries of the completed-topics list handed to calculateSystemMetrics
GivenTopics ==
    IF "completedTopics" \in DOMAIN learningHistory
    THEN learningHistory.completedTopics
    ELSE <<>>

\* C37 (as stated): whenever the metrics carry an error marker, every one of
\* them has its zero default.
C37_ErrorLeavesZeroMetrics ==
    (metrics # NoMetrics /\ "error" \in DOMAIN metrics) =>
        \A f \in DOMAIN ZeroMetrics : metrics[f] = ZeroMetrics[f]

\* C38: for an empty completed-topics list the metrics are the zero defaults
\* with no error marker; for a non-empty list of topics the completed count is
\* the length of the list; the breakthrough count, the branch diversity and
\* the momentum do not exceed it; the branch diversity is at least 1; the
\* difficulty sum is the sum of the difficulties given plus 3 for each topic
\* without the field (and for each whose difficulty is 0); and there is no
\* error marker.
C38_MetricsOfTopics ==
    LET topics == GivenTopics
        n == Len(topics)
        missing == {i \in 1..n : "difficulty" \notin DOMAIN topics[i]}
        zero == {i \in 1..n : "difficulty" \in DOMAIN topics[i]
                                 /\ topics[i]["difficulty"] = 0}
        given == Sum([i \in 1..n |-> IF i \in missing THEN 0 ELSE topics[i]["difficulty"]])
    IN  (metrics # NoMetrics /\ "completedTopics" \in DOMAIN learningHistory) =>
           /\ n = 0 => metrics = ZeroMetrics
           /\ (n > 0 /\ \A i \in 1..n : topics[i] # Null) =>
                 /\ "error" \notin DOMAIN metrics
                 /\ metrics.totalCompletedTasks = n
                 /\ metrics.breakthroughCount <= n
                 /\ metrics.branchDiversity >= 1
                 /\ metrics.branchDiversity <= n
                 /\ metrics.momentum <= n
                 /\ metrics.averageDifficulty.count = n
                 /\ metrics.averageDifficulty.sum =
                       given + 3 * Cardinality(missing) + 3 * Cardinality(zero)

\* C38 witness: the metrics of two topics, neither with a branch, one of them
\* without a difficulty and the other with difficulty 5.
C38_Witness ==
    /\ metrics # NoMetrics
    /\ Len(GivenTopics) = 2
    /\ \A i \in 1..2 : GivenTopics[i] # Null /\ "branch" \notin DOMAIN GivenTopics[i]
    /\ "difficulty" \notin DOMAIN GivenTopics[1]
    /\ metrics.branchDiversity = 1
    /\ metrics.averageDifficulty = Quotient(8, 2)

\* the days, counted back from today, whose schedule load returned a schedule
LoadedDays(loads) == {i \in 1..ScheduleDays : loads.days[i] = "loaded"}

\* C35: when the loads of gatherSystemState have answered, the body goes on
\* to its provider whatever they answered, and nothing is logged through
\* logError.  If the load of config.json, hta.json or learning_history.json
\* failed, the snapshot handed to the provider carries the error marker.  If
\* none did, the snapshot carries no error marker and holds the schedules of
\* exactly the days whose load returned one, at most 7, a day whose load
\* failed or returned nothing being left out.  A body whose snapshot carries
\* the error marker still sets its registry entry and publishes its event
\* when the provider answers.
C35_SnapshotFailureGoesOn ==
    [][ /\ last'.op = "gatherSystemStateReturn" =>
              LET loads == last'.result
                  snap == Begun.systemState
              IN  /\ Begun.pc = "provider"
                  /\ Begun.providerCalls = 1
                  /\ runs' = (runs (-) SetToBag({Ended})) (+) SetToBag({Begun})
                  /\ logged' = <<>>
                  /\ snap.error = (loads.failed # "")
                  /\ loads.failed = "" =>
                        /\ Len(snap.recentSchedules) <= 7
                        /\ Len(snap.recentSchedules) = Cardinality(LoadedDays(loads))
                        /\ {e.date : e \in {snap.recentSchedules[i] :
                                             i \in 1..Len(snap.recentSchedules)}}
                              = {DateStr(now, i - 1) : i \in LoadedDays(loads)}
        /\ (last'.op = "providerReturn" /\ Ended.systemState.error) =>
              /\ lastAnalysis' = MapSet(lastAnalysis, last'.job, ToISOString(now))
              /\ Len(emitted') = 1
              /\ emitted'[1].topic = ResultTopic(last'.job)
              /\ logged' = <<>>
      ]_vars

\* C35 witness: a strategic body whose snapshot carries the error marker
\* (hta.json failed to load after config.json had loaded) set its registry
\* entry and published its event.
C35_Witness ==
    /\ last.op = "providerReturn"
    /\ last.job = "strategic_analysis"
    /\ "strategic_analysis" \in DOMAIN lastAnalysis
    /\ emitted[1].payload.systemState.error
    /\ emitted[1].payload.systemState.loaded = {"config.json"}

\* C36: an effective start() publishes exactly one event,
\* system:clock_started, and the listeners it reaches find isRunning true and
\* the recurring timers of this start already created; start() on a running
\* clock publishes nothing and changes nothing.
C36_StartedEventLast ==
    [][ \A config \in Configs :
          /\ (~isRunning /\ Start(config)) =>
                /\ isRunning'
                /\ Len(emitted') = 1
                /\ emitted'[1].topic = "system:clock_started"
                /\ emitted'[1].seen = Seen(TRUE, intervals', liveIntervals')
          /\ (isRunning /\ Start(config)) =>
                /\ UNCHANGED ClockState
                /\ emitted' = <<>>
      ]_vars

\* C36 witness: start() took effect in interactive mode and its event reached
\* the listeners with the five timers in place.
C36_Witness ==
    /\ StartedBy("started")
    /\ emitted[1].seen.isRunning
    /\ emitted[1].seen.activeIntervals = JobKinds
    /\ Cardinality(emitted[1].seen.liveTimers) = 5

=============================================================================
